---- MODULE Spec2Model ----
(***************************************************************************)
(* Model of the remote query / export pipeline of remote-tool              *)
(* (src-tauri/src/query/mod.rs over src-tauri/src/ssh/mod.rs).             *)
(*                                                                         *)
(* In Spec one call of execute_query, export_wide_table_direct or          *)
(* export_demand_results_direct runs at a time; every action is the code   *)
(* of the call from one .await to the next.  SpecSession runs two calls    *)
(* side by side on the shared session.  The remote host, the SFTP          *)
(* transfer and the local file system are the environment: their outcomes  *)
(* are drawn with \E.  A string is a sequence of tokens.                   *)
(*                                                                         *)
(* Spec        the query / export calls over the shared SSH session        *)
(* SpecInfer   the type inference of one CSV field (query/mod.rs:793-811)  *)
(* SpecExport  export_to_csv of a wide-table result (export/mod.rs:321ff)  *)
(* SpecConfig  load_config and its OnceLock (export/mod.rs:20-70)          *)
(* SpecExtract filter_and_extract_fields (export/mod.rs:116-199)           *)
(* SpecEncode  the base64 embedding of db_path and sql in the script       *)
(*             (query/mod.rs:633-706)                                      *)
(* SpecScript  the Python script, statement by statement                   *)
(*             (query/mod.rs:641-701)                                      *)
(* SpecSession connect, disconnect and concurrent calls on SSH_CLIENT      *)
(*             (ssh/mod.rs:16-142)                                         *)
(* SpecConnect SshClient::connect and disconnect statement by statement,   *)
(*             two calls side by side (ssh/mod.rs:21-89)                   *)
(* SpecDeploy  check_deploy_status and deploy_application, one remote      *)
(*             command per action (deploy/mod.rs:34-797)                   *)
(***************************************************************************)
EXTENDS Integers, Sequences, FiniteSets, TLC

VARIABLES
    SSH_CLIENT,     \* ssh/mod.rs:16  "None" | "Some"; in SpecSession "None" | "client<n>"
    log_callback,   \* TRUE while a callback set by set_log_callback is registered
    remote_fs,      \* paths of the temp files that exist on the remote host
    local_fs,       \* paths of the temp files that exist on the local disk
    output_file,    \* state of the file at output_path: "absent" | "partial" | "complete"
    calls,          \* number of calls started so far
    pc,             \* position of the running call: "idle" | "exec2" | "download" | "rm" | "done"
    loc,            \* the local variables of the running call
    ops,            \* the SshClient primitives the running call has invoked, in order
    result,         \* the value the call returned (meaningful when pc = "done")
    input,          \* the argument of a pure function under check
    output,         \* the value the function returned for `input`
    CONFIG,         \* export/mod.rs:21  the OnceLock<ExportConfig>
    config_files,   \* the two csv_export_config.toml files on the local disk
    loaders,        \* the threads calling load_config
    tasks,          \* the calls that run concurrently on the shared session
    connects,       \* number of sessions Client::connect has opened so far
    SSH_CONFIG      \* ssh/mod.rs:17  "None" | "config<n>", the SshConfig of connect call n

\* the variables of the query / export calls
query_vars == <<SSH_CLIENT, log_callback, remote_fs, local_fs, output_file, calls, pc, loc, ops, result>>

\* the variables of the concurrent calls
session_vars == <<tasks, connects, SSH_CONFIG>>

\* the variables the query / export calls never touch
aux_vars == <<input, output, CONFIG, config_files, loaders, session_vars>>

vars == <<SSH_CLIENT, log_callback, remote_fs, local_fs, output_file, calls, pc, loc, ops, result,
          input, output, CONFIG, config_files, loaders, tasks, connects, SSH_CONFIG>>

\* ------------------------------------------------------------------ bounds

\* number of calls one behaviour makes
MaxCalls == 2
\* number of data records in a downloaded result file
MaxRows == 2
\* number of characters of an enumerated CSV field
MaxFieldLen == 3
\* number of columns of an enumerated result header
MaxColumns == 3
\* number of threads that call load_config
MaxLoaders == 2
\* number of load_config calls one behaviour makes
MaxLoads == 3

\* the longest SQL text enumerated for the encoding of the script's inputs
MaxSqlLen == 2
\* number of sessions Client::connect opens in one behaviour
MaxConnects == 2

\* ------------------------------------------------------------------ strings

\* str::trim: strips leading and trailing whitespace
WhiteSpace == {" ", "\n", "\r", "\t"}

RECURSIVE TrimStart(_)
TrimStart(s) ==
    IF s # <<>> /\ Head(s) \in WhiteSpace THEN TrimStart(Tail(s)) ELSE s

RECURSIVE TrimEnd(_)
TrimEnd(s) ==
    IF s # <<>> /\ s[Len(s)] \in WhiteSpace THEN TrimEnd(SubSeq(s, 1, Len(s) - 1)) ELSE s

Trim(s) == TrimEnd(TrimStart(s))

\* str::to_lowercase, token by token
LowerTok(t) ==
    CASE t = "Command" -> "command"
      [] t = "Not"     -> "not"
      [] t = "Found"   -> "found"
      [] OTHER         -> t

ToLowercase(s) == [i \in 1..Len(s) |-> LowerTok(s[i])]

\* str::contains
Contains(s, needle) ==
    \E i \in 0..(Len(s) - Len(needle)) : SubSeq(s, i + 1, i + Len(needle)) = needle

\* the literal "command not found"
CommandNotFound == <<"command", "not", "found">>

\* ------------------------------------------------------------------ values

\* Result<_, String>: Ok carries the rows/columns/count, Err carries one message
NoResult ==
    [tag |-> "None", columns |-> <<>>, rows |-> <<>>, count |-> 0, err |-> "", detail |-> <<>>]

OkResult(columns, rows, count) ==
    [tag |-> "Ok", columns |-> columns, rows |-> rows, count |-> count, err |-> "",
     detail |-> <<>>]

ErrResult(msg) ==
    [tag |-> "Err", columns |-> <<>>, rows |-> <<>>, count |-> 0, err |-> msg, detail |-> <<>>]

\* `Err(format!("SQL查询失败: {}", error_msg))`: the fixed prefix is `err`, the
\* text put after it is `detail`
SqlQueryFailed(error_msg) == [ErrResult("sql query failed") EXCEPT !.detail = error_msg]

\* (exit_status, stdout, stderr) of execute_command, before any command ran
NoOutput == [exit |-> -1, stdout |-> <<>>, stderr |-> <<>>]

\* content of a downloaded file: is it a gzip stream, does its CSV header parse,
\* the header, and the records ("bad" = a record the csv reader rejects)
NoContent == [gz |-> FALSE, hdr |-> FALSE, cols |-> <<>>, recs |-> <<>>]

Header == <<"local_timestamp", "b", "a">>

\* sample records: two with one field per header column, one with too few fields
GoodRecord1 == <<"1000", "", "x">>
GoodRecord2 == <<"2000", "1.5", "7">>
BadRecord == <<"3000">>

\* the well-formed record at position i of a file
GoodAt(i) == IF i % 2 = 1 THEN GoodRecord1 ELSE GoodRecord2

\* the record sequences of a file: each record is well-formed or too short
RecordSeqs ==
    UNION {{r \in [1..n -> {GoodRecord1, GoodRecord2, BadRecord}] :
                \A i \in 1..n : r[i] \in {GoodAt(i), BadRecord}} : n \in 0..MaxRows}

Contents ==
    {[gz |-> TRUE, hdr |-> TRUE, cols |-> Header, recs |-> r] : r \in RecordSeqs}
    \cup {[gz |-> TRUE, hdr |-> TRUE, cols |-> <<>>, recs |-> <<>>],
          [gz |-> TRUE, hdr |-> FALSE, cols |-> <<>>, recs |-> <<>>],
          [gz |-> FALSE, hdr |-> FALSE, cols |-> <<>>, recs |-> <<>>]}

\* the query sent to SQLite: table, inclusive bounds on local_timestamp, order
NoSql == [table |-> "", lo |-> 0, hi |-> 0, order_by |-> ""]

NoLocals ==
    [fn |-> "none", query_type |-> "", temp_file |-> <<>>, first |-> NoOutput,
     final |-> NoOutput, remote_temp_file |-> <<>>, local_temp_path |-> <<>>,
     content |-> NoContent, row_count |-> 0,
     start_time |-> 0, end_time |-> 0, sql |-> NoSql,
     written |-> NoContent,    \* what the script's last run wrote to temp_file
     sub |-> NoResult,         \* what execute_sql_query returned
     rm |-> "untried",         \* the remote delete: "untried" | "ok" | "failed"
     local_rm |-> "untried"]   \* std::fs::remove_file of the local file, likewise

\* ------------------------------------------------------------------ inputs

\* values of QueryParams.query_type a caller may send
QueryTypes == {"wide_table", "device", "command", "unknown"}

\* values of (QueryParams.start_time, QueryParams.end_time), in seconds: a
\* range holding several rows, one second, an inverted range, an empty range
TimeRanges == {<<1, 2>>, <<2, 2>>, <<2, 1>>, <<3, 3>>}

\* the query kinds the specification's data model names
RecognizedKinds == {"device", "command", "wide_table"}

\* ------------------------------------------------------------------ the remote host

\* stderr texts of a shell that cannot find the interpreter, and of the script
BashNotFound == <<"bash:", "python3:", "command", "not", "found">>
CshNotFound == <<"python3:", "Command", "not", "found", ".">>
DashNotFound == <<"sh:", "python3:", "not", "found">>
ErrorPayload == <<"{", "error", ":", "no such table: data_wide", "}">>

\* other stderr texts of a failed run: the payload as print() writes it, an
\* object without the key "error", an object whose "error" is a number, and
\* text that is not JSON
ErrorPayloadLine == ErrorPayload \o <<"\n">>
NoErrorField == <<"{", "message", ":", "disk full", "}", "\n">>
NumericError == <<"{", "error", ":", "1", "}", "\n">>
TracebackText == <<"Traceback", "ModuleNotFoundError", "\n">>

\* a temp_file path that does not depend on the call
TempFile_Shared(fn, n) ==
    CASE fn = "execute_query" -> <<"/tmp/query_result.csv.gz">>
      [] fn = "export_wide_table_direct" -> <<"/tmp/wide_table_export.csv.gz">>
      [] OTHER -> <<"/tmp/demand_results_export.csv.gz">>

\* `temp_file`: a fresh path per call (Uuid::new_v4), n = number of the call
TempFile(fn, n) ==
    CASE fn = "execute_query" -> <<"/tmp/query_result_" \o ToString(n) \o ".csv.gz">>
      [] fn = "export_wide_table_direct" -> <<"/tmp/wide_table_export_" \o ToString(n) \o ".csv.gz">>
      [] OTHER -> <<"/tmp/demand_results_export_" \o ToString(n) \o ".csv.gz">>

\* path of the NamedTempFile of call n
LocalTempPath(n) == <<"/tmp/.tmp" \o ToString(n)>>

\* what the script prints on success: print(temp_file), or for the exports
\* print(json.dumps({"file": temp_file, "rows": row_count}))
SuccessStdout(fn, temp_file) ==
    IF fn = "execute_query"
    THEN temp_file \o <<"\n">>
    ELSE <<"{", "file", ":">> \o temp_file \o <<",", "rows", ":", "2", "}", "\n">>

\* What one run of `<interpreter> << EOF ... EOF` can do on the remote host:
\* exit status, stdout, stderr, and what it left at temp_file.
ScriptOutcomes(fn, temp_file) ==
    {[exit |-> 127, stdout |-> <<>>, stderr |-> e, wrote |-> "none"] :
        e \in {BashNotFound, CshNotFound, DashNotFound}}
    \cup {[exit |-> 1, stdout |-> <<>>, stderr |-> ErrorPayload, wrote |-> w] :
        w \in {"none", "partial"}}
    \cup {[exit |-> 1, stdout |-> <<>>, stderr |-> e, wrote |-> "none"] :
        e \in {ErrorPayloadLine, NoErrorField, NumericError, TracebackText}}
    \cup {[exit |-> 0, stdout |-> SuccessStdout(fn, temp_file), stderr |-> <<>>, wrote |-> w] :
        w \in {"complete", "none"}}
    \cup {[exit |-> 0, stdout |-> <<"\n">>, stderr |-> <<>>, wrote |-> "none"]}
    \cup (IF fn = "execute_query" THEN {} ELSE
          {[exit |-> 0, stdout |-> <<"{", "rows", ":", "2", "}", "\n">>, stderr |-> <<>>,
            wrote |-> "complete"]})

\* The table data_wide of the remote database, in rowid order; its columns
\* are Header.  local_timestamp is in milliseconds; two rows share 2000.
DataWide ==
    <<[local_timestamp |-> 2000, b |-> "1.5", a |-> "7"],
      [local_timestamp |-> 1000, b |-> "", a |-> "x"],
      [local_timestamp |-> 2000, b |-> "2", a |-> ""],
      [local_timestamp |-> 2001, b |-> "0", a |-> "y"],
      [local_timestamp |-> 999, b |-> "", a |-> ""]>>

\* `local_timestamp >= lo AND local_timestamp <= hi`
InRange_Symmetric(t, lo, hi) == (lo <= t /\ t <= hi) \/ (hi <= t /\ t <= lo)

\* a filter that leaves out the rows exactly at a bound
InRange_Exclusive(t, lo, hi) == lo < t /\ t < hi

InRange(t, lo, hi) == lo <= t /\ t <= hi

\* the script's writer.writerow: str(value) of every column, '' for None
RowRecord(row) ==
    [i \in 1..Len(Header) |->
        IF Header[i] = "local_timestamp" THEN ToString(row.local_timestamp)
        ELSE row[Header[i]]]

\* rowids of the rows the WHERE clause selects
Matching(sql) ==
    {i \in DOMAIN DataWide :
        sql.table = "data_wide" /\ InRange(DataWide[i].local_timestamp, sql.lo, sql.hi)}

\* the orders in which SQLite may return the selected rows: ascending by
\* local_timestamp under ORDER BY (rows with equal keys in any order), any
\* order without it
RowOrders(sql) ==
    {s \in [1..Cardinality(Matching(sql)) -> Matching(sql)] :
        /\ \A i, j \in DOMAIN s : i < j => s[i] # s[j]
        /\ sql.order_by = "local_timestamp ASC" =>
              \A i, j \in DOMAIN s :
                  i < j => DataWide[s[i]].local_timestamp <= DataWide[s[j]].local_timestamp}

\* the files the script can write for the query: the header, then one record
\* per returned row
SqlResults(sql) ==
    {[gz |-> TRUE, hdr |-> TRUE, cols |-> Header,
      recs |-> [k \in DOMAIN s |-> RowRecord(DataWide[s[k]])]] : s \in RowOrders(sql)}

\* what a run of the script with outcome `out` leaves at temp_file
ScriptWrites(l, out) ==
    IF l.fn = "execute_query" /\ out.wrote = "complete"
    THEN SqlResults(l.sql)
    ELSE {NoContent}

\* remote_path of an upload
UploadPath == <<"/tmp/upload.bin">>

\* one entry of `ops`
Op(op, interp, path, sent, missing) ==
    [op |-> op, interp |-> interp, path |-> path, sent |-> sent, missing |-> missing]

\* ------------------------------------------------------------------ json

\* the tokens between the braces of a JSON object text
JsonInner(s) == SubSeq(s, 2, Len(s) - 1)

\* serde_json::from_str::<HashMap<String, Value>>: the text is one object
\* `{ key : value , key : value ... }`
IsJsonObject(s) ==
    /\ Len(s) >= 2
    /\ s[1] = "{"
    /\ s[Len(s)] = "}"
    /\ LET inner == JsonInner(s) IN
       \/ inner = <<>>
       \/ /\ (Len(inner) + 1) % 4 = 0
          /\ \A i \in 1..Len(inner) :
                /\ (i % 4 = 2 => inner[i] = ":")
                /\ (i % 4 = 0 => inner[i] = ",")
                /\ (i % 4 \in {1, 3} => inner[i] \notin {":", ",", "{", "}"})

\* HashMap::get(key): the positions of `key` among the object's keys
JsonKeyAt(s, key) ==
    {i \in 1..Len(JsonInner(s)) : i % 4 = 1 /\ JsonInner(s)[i] = key}

JsonHas(s, key) == JsonKeyAt(s, key) # {}

JsonGet(s, key) == JsonInner(s)[(CHOOSE i \in JsonKeyAt(s, key) : TRUE) + 2]

\* a value token that is a JSON number
IsJsonNumber(t) == t \in {"0", "1", "2"}

\* serde_json::from_str::<HashMap<String, String>>: the text, whitespace around
\* it aside, is one object and every value is a string
IsStringMap(s) ==
    /\ IsJsonObject(Trim(s))
    /\ \A i \in 1..Len(JsonInner(Trim(s))) :
            i % 4 = 3 => ~IsJsonNumber(JsonInner(Trim(s))[i])

\* an error message that is always the raw stderr text
ErrorMsg_Raw(stderr) == stderr

\* `error_msg`: the "error" entry of stderr parsed as a map of strings, the
\* stderr text when it does not parse or has no such entry
ErrorMsg(stderr) ==
    IF IsStringMap(stderr) /\ JsonHas(Trim(stderr), "error")
    THEN <<JsonGet(Trim(stderr), "error")>>
    ELSE stderr

\* Value::as_u64 of a number token
AsU64(t) ==
    CASE t = "0" -> 0
      [] t = "1" -> 1
      [] t = "2" -> 2
      [] OTHER -> 0

\* ------------------------------------------------------------------ the code's decisions

\* execute_query: `if params.query_type == "wide_table"`
IsSupportedQueryType_AcceptsAll(query_type) == TRUE

IsSupportedQueryType_AcceptsDevice(query_type) == query_type \in {"wide_table", "device"}

IsSupportedQueryType(query_type) == query_type = "wide_table"

\* `exit_status != 0 && stderr.to_lowercase().contains("command not found")`
ShouldRetry_CaseSensitive(exit_status, stderr) ==
    exit_status # 0 /\ Contains(stderr, CommandNotFound)

ShouldRetry(exit_status, stderr) ==
    exit_status # 0 /\ Contains(ToLowercase(stderr), CommandNotFound)

\* Drop of `local_temp_file: NamedTempFile` when the function returns: the file
\* at its path is removed
NamedTempFileDrop_Keeps(fs, path) == fs

NamedTempFileDrop(fs, path) == fs \ {path}

\* `.map_err(|e| format!("下载结果文件失败: {}", e))?` on download_file
OnDownloadError_Empty == OkResult(<<>>, <<>>, 0)

OnDownloadError == ErrResult("download failed")

\* ---- str::parse::<i64> and str::parse::<f64>, character by character

\* no value computed yet
NoValue == [type |-> "none", text |-> ""]

Char(s, i) == SubSeq(s, i, i)

Digits == {"0", "1", "2", "3", "4", "5", "6", "7", "8", "9"}

DigitVal(c) ==
    CASE c = "0" -> 0 [] c = "1" -> 1 [] c = "2" -> 2 [] c = "3" -> 3 [] c = "4" -> 4
      [] c = "5" -> 5 [] c = "6" -> 6 [] c = "7" -> 7 [] c = "8" -> 8 [] OTHER -> 9

\* one or more ASCII digits
IsDigits(s) == Len(s) >= 1 /\ \A i \in 1..Len(s) : Char(s, i) \in Digits

\* zero or more ASCII digits
IsDigitRun(s) == \A i \in 1..Len(s) : Char(s, i) \in Digits

HasSign(s) == Len(s) >= 1 /\ Char(s, 1) \in {"+", "-"}

IsNegative(s) == Len(s) >= 1 /\ Char(s, 1) = "-"

\* the text after an optional sign
Unsigned(s) == IF HasSign(s) THEN SubSeq(s, 2, Len(s)) ELSE s

\* a digit string without its leading zeros ("" when it holds only zeros)
RECURSIVE StripZeros(_)
StripZeros(s) ==
    IF Len(s) >= 1 /\ Char(s, 1) = "0" THEN StripZeros(SubSeq(s, 2, Len(s))) ELSE s

\* the i-th digit of s, read as if s were followed by zeros
DigitAt(s, i) == IF i <= Len(s) THEN DigitVal(Char(s, i)) ELSE 0

\* a >= b for digit strings read as decimal fractions 0.a and 0.b, from digit i
RECURSIVE FractionGeq(_, _, _)
FractionGeq(a, b, i) ==
    IF i > Len(a) /\ i > Len(b) THEN TRUE
    ELSE IF DigitAt(a, i) # DigitAt(b, i) THEN DigitAt(a, i) > DigitAt(b, i)
    ELSE FractionGeq(a, b, i + 1)

\* the value of a short digit string
RECURSIVE DecimalValue(_)
DecimalValue(s) ==
    IF s = "" THEN 0
    ELSE 10 * DecimalValue(SubSeq(s, 1, Len(s) - 1)) + DigitVal(Char(s, Len(s)))

\* i64::MAX and the magnitude of i64::MIN
I64MaxText == "9223372036854775807"

I64MinMagnitude == "9223372036854775808"

\* i64::from_str: an optional sign, one or more digits, no overflow
ParsesI64(s) ==
    /\ IsDigits(Unsigned(s))
    /\ LET m == StripZeros(Unsigned(s))
           limit == IF IsNegative(s) THEN I64MinMagnitude ELSE I64MaxText
       IN  \/ Len(m) < Len(limit)
           \/ Len(m) = Len(limit) /\ FractionGeq(limit, m, 1)

\* the decimal text serde_json prints for the parsed i64
I64Text(s) ==
    LET m == StripZeros(Unsigned(s)) IN
    IF m = "" THEN "0" ELSE IF IsNegative(s) THEN "-" \o m ELSE m

\* ASCII lowercase of one character of the words inf, infinity, nan
LowerChar(c) ==
    CASE c = "I" -> "i" [] c = "N" -> "n" [] c = "F" -> "f" [] c = "A" -> "a"
      [] c = "T" -> "t" [] c = "Y" -> "y" [] OTHER -> c

RECURSIVE LowerAscii(_)
LowerAscii(s) ==
    IF s = "" THEN "" ELSE LowerChar(Char(s, 1)) \o LowerAscii(SubSeq(s, 2, Len(s)))

\* the texts f64::from_str reads as an infinity or as NaN, after the sign
IsNonFiniteWord(s) == LowerAscii(s) \in {"inf", "infinity", "nan"}

\* positions of the exponent marker and of the decimal point
ExpPositions(s) == {i \in 1..Len(s) : Char(s, i) \in {"e", "E"}}

DotPositions(s) == {i \in 1..Len(s) : Char(s, i) = "."}

MinOf(S) == CHOOSE i \in S : \A j \in S : i <= j

\* the part of a decimal number before the exponent marker, and after it
Mantissa(s) ==
    IF ExpPositions(s) = {} THEN s ELSE SubSeq(s, 1, MinOf(ExpPositions(s)) - 1)

Exponent(s) ==
    IF ExpPositions(s) = {} THEN "" ELSE SubSeq(s, MinOf(ExpPositions(s)) + 1, Len(s))

\* digits before and after the decimal point of a mantissa
IntPart(m) ==
    IF DotPositions(m) = {} THEN m ELSE SubSeq(m, 1, MinOf(DotPositions(m)) - 1)

FracPart(m) ==
    IF DotPositions(m) = {} THEN "" ELSE SubSeq(m, MinOf(DotPositions(m)) + 1, Len(m))

\* `digits [. digits] [(e|E) [sign] digits]` with at least one mantissa digit
IsDecimalNumber(s) ==
    /\ IsDigitRun(IntPart(Mantissa(s)))
    /\ IsDigitRun(FracPart(Mantissa(s)))
    /\ Len(IntPart(Mantissa(s))) + Len(FracPart(Mantissa(s))) >= 1
    /\ ExpPositions(s) # {} => IsDigits(Unsigned(Exponent(s)))

\* f64::from_str: an optional sign, then inf / infinity / nan in any case, or
\* a decimal number
ParsesF64(s) ==
    /\ s # ""
    /\ \/ IsNonFiniteWord(Unsigned(s))
       \/ IsDecimalNumber(Unsigned(s))

\* 2^1024 - 2^970: a decimal number at or above it rounds to an infinity
F64OverflowText ==
    "179769313486231580793728971405303415079934132710037826936173778980444968292764750946649017977587207096330286416692887910946555547851940402630657488671505820681908902000708383676273854845817711531764475730270069855571366959622842914819860834936475292719074168444365510704342711559699508093042880177904174497792"

\* more exponent digits than any finite f64 needs
MaxExpDigits == 6

\* the parsed decimal number (sign removed) is finite: with significant digits
\* d1 d2 ... and decimal exponent e10 its value is d1.d2... * 10^e10
IsFiniteDecimal(s) ==
    LET raw == IntPart(Mantissa(s)) \o FracPart(Mantissa(s))
        sig == StripZeros(raw)
        ex == StripZeros(Unsigned(Exponent(s)))
        e10 == Len(IntPart(Mantissa(s))) - (Len(raw) - Len(sig)) - 1
               + (IF IsNegative(Exponent(s)) THEN 0 - DecimalValue(ex) ELSE DecimalValue(ex))
    IN  \/ sig = ""
        \/ Len(ex) > MaxExpDigits /\ IsNegative(Exponent(s))
        \/ /\ Len(ex) <= MaxExpDigits
           /\ \/ e10 < Len(F64OverflowText) - 1
              \/ e10 = Len(F64OverflowText) - 1 /\ ~FractionGeq(sig, F64OverflowText, 1)

\* f64::is_finite of the parsed value
IsFiniteF64(s) == ~IsNonFiniteWord(Unsigned(s)) /\ IsFiniteDecimal(Unsigned(s))

\* serde_json::Value of one CSV field: Null for an empty field, else the i64,
\* else the f64 (Number::from_f64 is None for a non-finite value, replaced by
\* Number::from(0)), else the string
InferType(field) ==
    IF field = "" THEN [type |-> "null", text |-> ""]
    ELSE IF ParsesI64(field) THEN [type |-> "int", text |-> I64Text(field)]
    ELSE IF ParsesF64(field)
    THEN IF IsFiniteF64(field)
         THEN [type |-> "float", text |-> field]
         ELSE [type |-> "int", text |-> "0"]
    ELSE [type |-> "string", text |-> field]

\* one record turned into a JSON object keyed by the header names
ParseRow(headers, record) ==
    [h \in {headers[i] : i \in 1..Len(record)} |->
        InferType(record[CHOOSE i \in 1..Len(record) : headers[i] = h])]

\* csv::Reader (not flexible): a record whose field count differs from the
\* header's is an error
RecordOk(headers, record) == Len(record) = Len(headers)

\* `for record in reader.records()`: Err at the first bad record, the rows
\* collected so far are dropped with `results`
RECURSIVE ParseRecords_Partial(_, _, _)
ParseRecords_Partial(headers, records, results) ==
    IF records = <<>> \/ ~RecordOk(headers, Head(records))
    THEN [ok |-> TRUE, rows |-> results]
    ELSE ParseRecords_Partial(headers, Tail(records),
                              Append(results, ParseRow(headers, Head(records))))

RECURSIVE ParseRecordsLoop(_, _, _)
ParseRecordsLoop(headers, records, results) ==
    IF records = <<>> THEN [ok |-> TRUE, rows |-> results]
    ELSE IF ~RecordOk(headers, Head(records)) THEN [ok |-> FALSE, rows |-> <<>>]
    ELSE ParseRecordsLoop(headers, Tail(records),
                          Append(results, ParseRow(headers, Head(records))))

ParseRecords(headers, records, results) == ParseRecordsLoop(headers, records, results)

\* ------------------------------------------------------------------ initial state

\* the concurrent callers: two commands the frontend has invoked
Tasks == {1, 2}

\* a caller between two calls
NoTask ==
    [pc |-> "idle", fn |-> "none", call |-> 0, client |-> "None", temp_file |-> <<>>,
     remote_temp_file |-> <<>>, local_temp_path |-> <<>>, result |-> "none", used |-> {}]

\* no call has started, no session is stored
InitQuery ==
    /\ tasks = [t \in Tasks |-> NoTask]
    /\ connects = 0
    /\ SSH_CONFIG = "None"
    /\ SSH_CLIENT = "None"
    /\ log_callback = FALSE
    /\ remote_fs = {}
    /\ local_fs = {}
    /\ output_file = "absent"
    /\ calls = 0
    /\ pc = "idle"
    /\ loc = NoLocals
    /\ ops = <<>>
    /\ result = NoResult

\* OnceLock<ExportConfig>: "uninit", "running" while a thread executes the
\* initializer, "init" once a value is stored; seen_exe / seen_project keep
\* what the initializer found when it tried each file
ConfigUninit ==
    [state |-> "uninit", value |-> "none", seen_exe |-> "untried", seen_project |-> "untried"]

\* a csv_export_config.toml: absent, present but not parseable, or one of two
\* parseable contents
ConfigFileStates == {"absent", "invalid", "A", "B"}

ValidConfigs == {"A", "B"}

Loaders == 1..MaxLoaders

\* load_config has not been called, no config file exists
IdleConfig ==
    /\ CONFIG = ConfigUninit
    /\ config_files = [exe |-> "absent", project |-> "absent"]
    /\ loaders = [t \in Loaders |-> [pc |-> "idle", got |-> "none"]]

\* no pure function is under check, load_config has not been called
InitAux ==
    /\ input = ""
    /\ output = NoValue
    /\ IdleConfig

Init == InitQuery /\ InitAux

\* ------------------------------------------------------------------ the calls

\* execute_wide_table_query: the seconds-to-milliseconds conversion and the
\* SQL text
WideTableSql_Seconds(start_time, end_time) ==
    [table |-> "data_wide", lo |-> start_time, hi |-> end_time,
     order_by |-> "local_timestamp ASC"]

WideTableSql_Unordered(start_time, end_time) ==
    [table |-> "data_wide", lo |-> start_time * 1000, hi |-> end_time * 1000,
     order_by |-> ""]

WideTableSql(start_time, end_time) ==
    [table |-> "data_wide", lo |-> start_time * 1000, hi |-> end_time * 1000,
     order_by |-> "local_timestamp ASC"]

\* execute_wide_table_query, after `execute_sql_query(...).await?`: an empty
\* result is returned without columns
WideTableResult_KeepsColumns(columns, results) == OkResult(columns, results, Len(results))

\* a total_rows that counts the header line as well
WideTableResult_CountsHeader(columns, results) ==
    IF results = <<>>
    THEN OkResult(<<>>, <<>>, 0)
    ELSE OkResult(columns, results, Len(results) + 1)

WideTableResult(columns, results) ==
    IF results = <<>>
    THEN OkResult(<<>>, <<>>, 0)
    ELSE OkResult(columns, results, Len(results))

\* execute_wide_table_query from `execute_sql_query(...).await?` on: the `?`
\* returns the sub-query's error as the call's error
ExecuteWideTableQuery_MergesKeys(sub) ==
    IF sub.tag = "Err" THEN sub
    ELSE LET last == {i \in DOMAIN sub.rows :
                        \A j \in DOMAIN sub.rows :
                            j > i => sub.rows[j]["local_timestamp"] # sub.rows[i]["local_timestamp"]}
             nth(k) == CHOOSE i \in last : Cardinality({j \in last : j < i}) = k - 1
         IN  WideTableResult(sub.columns, [k \in 1..Cardinality(last) |-> sub.rows[nth(k)]])

ExecuteWideTableQuery_BestEffort(sub) ==
    IF sub.tag = "Err" THEN OkResult(<<>>, <<>>, 0)
    ELSE WideTableResult(sub.columns, sub.rows)

ExecuteWideTableQuery(sub) ==
    IF sub.tag = "Err" THEN sub
    ELSE WideTableResult(sub.columns, sub.rows)

\* A `return` of the running call: the value goes to the caller and the
\* locals are dropped, local_temp_file (if created) among them.  A return of
\* execute_sql_query goes to execute_wide_table_query first.
Return(res, l, fs) ==
    LET in_sql == l.fn = "execute_query" /\ l.temp_file # <<>> IN
    /\ pc' = "done"
    /\ result' = IF in_sql THEN ExecuteWideTableQuery(res) ELSE res
    /\ loc' = IF in_sql THEN [l EXCEPT !.sub = res] ELSE l
    /\ local_fs' = IF l.local_temp_path # <<>>
                   THEN NamedTempFileDrop(fs, l.local_temp_path)
                   ELSE fs

\* execute_query up to the first .await: the dispatch on query_type, then
\* execute_wide_table_query and execute_sql_query up to execute_command.
StartQuery ==
    /\ pc = "idle"
    /\ calls < MaxCalls
    /\ calls' = calls + 1
    /\ ops' = <<>>
    /\ \E query_type \in QueryTypes, range \in TimeRanges :
        IF IsSupportedQueryType(query_type)
        THEN /\ loc' = [NoLocals EXCEPT !.fn = "execute_query",
                                        !.query_type = query_type,
                                        !.start_time = range[1],
                                        !.end_time = range[2],
                                        !.sql = WideTableSql(range[1], range[2]),
                                        !.temp_file = TempFile("execute_query", calls + 1)]
             /\ log_callback' = TRUE
             /\ pc' = "exec1"
             /\ UNCHANGED <<result, local_fs>>
        ELSE /\ Return(ErrResult("unsupported query type"),
                       [NoLocals EXCEPT !.fn = "execute_query", !.query_type = query_type],
                       local_fs)
             /\ UNCHANGED log_callback
    /\ UNCHANGED <<SSH_CLIENT, remote_fs, output_file>>
    /\ UNCHANGED aux_vars

\* export_wide_table_direct / export_demand_results_direct up to the first
\* .await: the log callback, the temp file name, the script
StartExport ==
    /\ pc = "idle"
    /\ calls < MaxCalls
    /\ calls' = calls + 1
    /\ ops' = <<>>
    /\ \E fn \in {"export_wide_table_direct", "export_demand_results_direct"} :
        loc' = [NoLocals EXCEPT !.fn = fn, !.temp_file = TempFile(fn, calls + 1)]
    /\ log_callback' = TRUE
    /\ pc' = "exec1"
    /\ UNCHANGED <<SSH_CLIENT, remote_fs, local_fs, output_file, result>>
    /\ UNCHANGED aux_vars

\* `NamedTempFile::new()` and what follows it up to download_file
CreateLocalTemp(l, created) ==
    IF ~created
    THEN Return(ErrResult("create local temp file failed"), l, local_fs)
    ELSE /\ loc' = [l EXCEPT !.local_temp_path = LocalTempPath(calls)]
         /\ local_fs' = local_fs \cup {LocalTempPath(calls)}
         /\ pc' = "download"
         /\ UNCHANGED result

\* The code between the script's final (exit_status, stdout, stderr) and the
\* download: the error return on a non-zero status, the path taken from
\* stdout (execute_sql_query: the trimmed stdout; the exports: the "file"
\* entry of the JSON object on stdout), the local temporary file.
AfterScript(out, l0, created) ==
    LET l == [l0 EXCEPT !.final = out]
        text == Trim(out.stdout)
    IN  IF out.exit # 0
        THEN Return(SqlQueryFailed(ErrorMsg(out.stderr)), l, local_fs)
        ELSE IF l.fn = "execute_query"
        THEN CreateLocalTemp([l EXCEPT !.remote_temp_file = text], created)
        ELSE IF ~IsJsonObject(text)
        THEN Return(ErrResult("parse query result failed"), l, local_fs)
        ELSE IF ~JsonHas(text, "file")
        THEN Return(ErrResult("temp file path not found"), l, local_fs)
        ELSE CreateLocalTemp(
                [l EXCEPT !.remote_temp_file = <<JsonGet(text, "file")>>,
                          !.row_count = IF JsonHas(text, "rows")
                                        THEN AsU64(JsonGet(text, "rows")) ELSE 0],
                created)

\* execute_command that reaches the remote host whether or not a session is
\* stored
RunScript_NoClientCheck(interp, out, transport_ok) ==
    /\ ops' = Append(ops, Op("script", interp, loc.temp_file, TRUE, FALSE))
    /\ remote_fs' = IF out.wrote # "none"
                    THEN remote_fs \cup {loc.temp_file}
                    ELSE remote_fs

\* SshClient::execute_command of the script under `interp`: get_client fails
\* when no session is stored; a sent command may still fail in transport.
RunScript(interp, out, transport_ok) ==
    LET sent == SSH_CLIENT = "Some" IN
    /\ ops' = Append(ops, Op("script", interp, loc.temp_file, sent, FALSE))
    /\ remote_fs' = IF sent /\ out.wrote # "none"
                    THEN remote_fs \cup {loc.temp_file}
                    ELSE remote_fs

\* first execution, `python3 << EOF`, and the code up to the next .await
Exec1 ==
    /\ pc = "exec1"
    /\ \E out \in ScriptOutcomes(loc.fn, loc.temp_file), transport_ok, created \in BOOLEAN :
        /\ RunScript("python3", out, transport_ok)
        /\ IF ~(SSH_CLIENT = "Some" /\ transport_ok)
           THEN Return(ErrResult("execute command failed"), loc, local_fs)
           ELSE \E written \in ScriptWrites(loc, out) :
                LET o == [exit |-> out.exit, stdout |-> out.stdout, stderr |-> out.stderr]
                    l == [loc EXCEPT !.first = o, !.written = written]
                IN  IF ShouldRetry(o.exit, o.stderr)
                    THEN /\ pc' = "exec2"
                         /\ loc' = l
                         /\ UNCHANGED <<result, local_fs>>
                    ELSE AfterScript(o, l, created)
    /\ UNCHANGED <<SSH_CLIENT, log_callback, output_file, calls>>
    /\ UNCHANGED aux_vars

\* second execution, `python << EOF`, whose result is final
Exec2 ==
    /\ pc = "exec2"
    /\ \E out \in ScriptOutcomes(loc.fn, loc.temp_file), transport_ok, created \in BOOLEAN :
        /\ RunScript("python", out, transport_ok)
        /\ IF ~(SSH_CLIENT = "Some" /\ transport_ok)
           THEN Return(ErrResult("execute command failed"), loc, local_fs)
           ELSE \E written \in ScriptWrites(loc, out) :
                AfterScript([exit |-> out.exit, stdout |-> out.stdout, stderr |-> out.stderr],
                            [loc EXCEPT !.written = written], created)
    /\ UNCHANGED <<SSH_CLIENT, log_callback, output_file, calls>>
    /\ UNCHANGED aux_vars

\* What the downloaded file may hold: the file the script wrote, or any other
\* content.  The exports copy the decompressed stream without reading its
\* records, so for them the contents without records stand for all.
Downloadable(l) ==
    IF l.fn = "execute_query"
    THEN Contents \cup {l.written}
    ELSE {c \in Contents : c.recs = <<>>}

\* SshClient::download_file(remote_temp_file, local_temp_path), then
\* std::fs::metadata of the downloaded file
Download ==
    /\ pc = "download"
    /\ \E transport_ok, meta_ok \in BOOLEAN, content \in Downloadable(loc) :
        LET sent == SSH_CLIENT = "Some"
            missing == loc.remote_temp_file \notin remote_fs
            l == [loc EXCEPT !.content = content]
        IN  /\ ops' = Append(ops, Op("download", "", loc.remote_temp_file, sent, missing))
            /\ IF ~(sent /\ ~missing /\ transport_ok)
               THEN Return(OnDownloadError, loc, local_fs)
               ELSE IF ~meta_ok
               THEN Return(ErrResult("file metadata failed"), l, local_fs)
               ELSE /\ pc' = "rm"
                    /\ loc' = l
                    /\ UNCHANGED <<result, local_fs>>
    /\ UNCHANGED <<SSH_CLIENT, log_callback, remote_fs, output_file, calls>>
    /\ UNCHANGED aux_vars

\* a cleanup step's outcome in words
Outcome(ok) == IF ok THEN "ok" ELSE "failed"

\* a cleanup step whose failure becomes the call's error
IgnoreCleanupError_Escalates(l, res) ==
    IF "failed" \in {l.rm, l.local_rm} THEN ErrResult("cleanup failed") ELSE res

\* `let _ = <cleanup step>`: the step's Result is dropped, and the call goes
\* on to the value `res` it would return anyway
IgnoreCleanupError(l, res) == res

\* execute_sql_query after the remote delete: open, decompress, remove the
\* local file, parse; Ok((results, columns)) carries what was parsed
DecodeQuery(l0, open_ok, remove_ok) ==
    LET c == l0.content
        parsed == ParseRecords(c.cols, c.recs, <<>>)
        l == [l0 EXCEPT !.local_rm = Outcome(remove_ok)]
        fs == IF remove_ok THEN local_fs \ {l0.local_temp_path} ELSE local_fs
    IN  IF ~open_ok
        THEN /\ Return(IgnoreCleanupError(l0, ErrResult("open compressed file failed")),
                       l0, local_fs)
             /\ UNCHANGED log_callback
        ELSE IF ~c.gz
        THEN /\ Return(IgnoreCleanupError(l0, ErrResult("read decompressed data failed")),
                       l0, local_fs)
             /\ UNCHANGED log_callback
        ELSE IF ~c.hdr
        THEN /\ Return(IgnoreCleanupError(l, ErrResult("read csv header failed")), l, fs)
             /\ UNCHANGED log_callback
        ELSE IF ~parsed.ok
        THEN /\ Return(IgnoreCleanupError(l, ErrResult("read csv record failed")), l, fs)
             /\ UNCHANGED log_callback
        ELSE /\ Return(IgnoreCleanupError(l, OkResult(c.cols, parsed.rows, Len(parsed.rows))),
                       l, fs)
             /\ log_callback' = FALSE

\* the exports after the remote delete: open the local file, create the
\* output file, write the BOM, copy the decompressed stream, remove the
\* local file, read the output file's size
DecodeExport(l0, open_ok, create_ok, meta_ok, remove_ok) ==
    LET l == [l0 EXCEPT !.local_rm = Outcome(remove_ok)]
        fs == IF remove_ok THEN local_fs \ {l0.local_temp_path} ELSE local_fs
    IN  IF ~open_ok
        THEN /\ Return(IgnoreCleanupError(l0, ErrResult("open compressed file failed")),
                       l0, local_fs)
             /\ UNCHANGED <<log_callback, output_file>>
        ELSE IF ~create_ok
        THEN /\ Return(IgnoreCleanupError(l0, ErrResult("create output file failed")),
                       l0, local_fs)
             /\ UNCHANGED <<log_callback, output_file>>
        ELSE IF ~l0.content.gz
        THEN /\ Return(IgnoreCleanupError(l0, ErrResult("read decompressed data failed")),
                       l0, local_fs)
             /\ output_file' = "partial"
             /\ UNCHANGED log_callback
        ELSE IF ~meta_ok
        THEN /\ Return(IgnoreCleanupError(l, ErrResult("output file metadata failed")), l, fs)
             /\ output_file' = "complete"
             /\ UNCHANGED log_callback
        ELSE /\ Return(IgnoreCleanupError(l, OkResult(<<>>, <<>>, l0.row_count)), l, fs)
             /\ output_file' = "complete"
             /\ log_callback' = FALSE

\* `let _ = SshClient::execute_command("rm -f \"<remote_temp_file>\"").await`,
\* then the rest of the call, which has no further .await
RemoveRemote ==
    /\ pc = "rm"
    /\ \E transport_ok, open_ok, remove_ok \in BOOLEAN :
        LET sent == SSH_CLIENT = "Some"
            l == [loc EXCEPT !.rm = Outcome(sent /\ transport_ok)]
        IN
        /\ ops' = Append(ops, Op("rm", "", loc.remote_temp_file, sent, FALSE))
        /\ remote_fs' = IF sent /\ transport_ok
                        THEN remote_fs \ {loc.remote_temp_file}
                        ELSE remote_fs
        /\ IF loc.fn = "execute_query"
           THEN DecodeQuery(l, open_ok, remove_ok) /\ UNCHANGED output_file
           ELSE \E create_ok, meta_ok \in BOOLEAN :
                    DecodeExport(l, open_ok, create_ok, meta_ok, remove_ok)
    /\ UNCHANGED <<SSH_CLIENT, calls>>
    /\ UNCHANGED aux_vars

\* SshClient::upload_file(local_path, remote_path) called on its own: the
\* SFTP put happens only with a stored session, and its error is returned
UploadFile ==
    /\ pc = "idle"
    /\ calls < MaxCalls
    /\ calls' = calls + 1
    /\ \E transport_ok \in BOOLEAN :
        LET sent == SSH_CLIENT = "Some" IN
        /\ ops' = <<Op("upload", "", UploadPath, sent, FALSE)>>
        /\ remote_fs' = IF sent /\ transport_ok
                        THEN remote_fs \cup {UploadPath}
                        ELSE remote_fs
        /\ Return(IF sent /\ transport_ok
                  THEN OkResult(<<>>, <<>>, 0)
                  ELSE ErrResult("upload failed"),
                  [NoLocals EXCEPT !.fn = "upload_file"], local_fs)
    /\ UNCHANGED <<SSH_CLIENT, log_callback, output_file>>
    /\ UNCHANGED aux_vars

\* the caller takes the returned value; the next call may start
Finish ==
    /\ pc = "done"
    /\ pc' = "idle"
    /\ loc' = NoLocals
    /\ ops' = <<>>
    /\ result' = NoResult
    /\ UNCHANGED <<SSH_CLIENT, log_callback, remote_fs, local_fs, output_file, calls>>
    /\ UNCHANGED aux_vars

\* SshClient::connect succeeding: the session is stored
Connect ==
    /\ SSH_CLIENT' = "Some"
    /\ SSH_CLIENT # "Some"
    /\ UNCHANGED <<log_callback, remote_fs, local_fs, output_file, calls, pc, loc, ops, result>>
    /\ UNCHANGED aux_vars

\* SshClient::disconnect: the stored session is taken
Disconnect ==
    /\ SSH_CLIENT = "Some"
    /\ SSH_CLIENT' = "None"
    /\ UNCHANGED <<log_callback, remote_fs, local_fs, output_file, calls, pc, loc, ops, result>>
    /\ UNCHANGED aux_vars

Next ==
    \/ StartQuery
    \/ StartExport
    \/ Exec1
    \/ Exec2
    \/ Download
    \/ RemoveRemote
    \/ UploadFile
    \/ Finish
    \/ Connect
    \/ Disconnect

Spec == Init /\ [][Next]_vars

\* ------------------------------------------------------------------ type inference alone

\* the characters the enumerated fields are made of
FieldAlphabet == {"0", "1", "9", "-", "+", ".", "e", "n", "a", "i", "f"}

\* every text of at most n characters
RECURSIVE TextsUpTo(_)
TextsUpTo(n) ==
    IF n = 0 THEN {""}
    ELSE TextsUpTo(n - 1) \cup {t \o c : t \in TextsUpTo(n - 1), c \in FieldAlphabet}

\* longer fields: the integer and float limits, the non-finite words, text
FieldSamples ==
    {"2000", "1.5e3", "007", "-0", "x1", "1 ", "infinity", "-Infinity", "NaN", "nano",
     "1e308", "1e309", "1.7976931348623157e308", "1.7976931348623159e308", "0.0e999",
     "9223372036854775807", "9223372036854775808", "-9223372036854775808",
     "-9223372036854775809", "1e-5", "1E5", ".5e1", "1.e1"}

FieldTexts == TextsUpTo(MaxFieldLen) \cup FieldSamples

\* one field of one record is about to be typed
InitInfer ==
    /\ InitQuery
    /\ input \in FieldTexts
    /\ output = NoValue
    /\ IdleConfig

\* the body of `for (i, field) in record.iter().enumerate()` for this field
ApplyInferType ==
    /\ output = NoValue
    /\ output' = InferType(input)
    /\ UNCHANGED <<input, CONFIG, config_files, loaders>>
    /\ UNCHANGED <<query_vars, session_vars>>

NextInfer == ApplyInferType

SpecInfer == InitInfer /\ [][NextInfer]_vars

\* ------------------------------------------------------------------ export_to_csv of a wide-table result

\* `String: Ord` compares bytes: the ASCII characters of column names in order
AsciiOrder == "0123456789ABCDEFGHIJKLMNOPQRSTUVWXYZ_abcdefghijklmnopqrstuvwxyz"

CharRank(c) == CHOOSE i \in 1..Len(AsciiOrder) : Char(AsciiOrder, i) = c

\* x < y for strings
RECURSIVE StrLess(_, _)
StrLess(x, y) ==
    IF y = "" THEN FALSE
    ELSE IF x = "" THEN TRUE
    ELSE IF Char(x, 1) # Char(y, 1) THEN CharRank(Char(x, 1)) < CharRank(Char(y, 1))
    ELSE StrLess(SubSeq(x, 2, Len(x)), SubSeq(y, 2, Len(y)))

\* `fieldnames.sort()` of the names collected from a HashSet
SortStrings(S) ==
    [k \in 1..Cardinality(S) |->
        CHOOSE x \in S : Cardinality({y \in S : StrLess(y, x)}) = k - 1]

NotTimestamp(name) == name # "local_timestamp"

\* the header of the wide-table export: every key of every row, sorted, then
\* local_timestamp moved to the front
ExportFieldnames_Sorted(processed_data) ==
    SortStrings(UNION {DOMAIN processed_data[i] : i \in DOMAIN processed_data})

ExportFieldnames(processed_data) ==
    LET all_fieldnames == UNION {DOMAIN processed_data[i] : i \in DOMAIN processed_data}
        fieldnames == SortStrings(all_fieldnames)
    IN  IF "local_timestamp" \in all_fieldnames
        THEN <<"local_timestamp">> \o SelectSeq(fieldnames, NotTimestamp)
        ELSE fieldnames

\* prepare_wide_table_for_export: every row keeps its keys; an integer
\* local_timestamp becomes the text format_timestamp gives (not computed here)
PrepareWideTableForExport(rows) ==
    [i \in DOMAIN rows |->
        [k \in DOMAIN rows[i] |->
            IF k = "local_timestamp" /\ rows[i][k].type = "int"
            THEN [type |-> "string", text |-> "formatted " \o rows[i][k].text]
            ELSE rows[i][k]]]

\* Result<(), String> of export_to_csv, with the header line written
NoExport == [tag |-> "none", header |-> <<>>, err |-> ""]

\* export_to_csv(data, file_path, Some("wide_table")) for data without a
\* csvFilePath
ExportToCsvResult(data, create_ok) ==
    IF data.rows = <<>>
    THEN [tag |-> "Err", header |-> <<>>, err |-> "No data to export"]
    ELSE IF PrepareWideTableForExport(data.rows) = <<>>
    THEN [tag |-> "Err", header |-> <<>>, err |-> "No data to export after processing"]
    ELSE IF ~create_ok
    THEN [tag |-> "Err", header |-> <<>>, err |-> "Failed to create CSV file"]
    ELSE [tag |-> "Ok", header |-> ExportFieldnames(PrepareWideTableForExport(data.rows)),
          err |-> ""]

\* column names of a result table
ColumnNames == {"local_timestamp", "b", "a", "Z"}

\* the headers a decoded file may have: distinct names in any order
Headers ==
    UNION {{h \in [1..n -> ColumnNames] : \A i, j \in 1..n : i # j => h[i] # h[j]} :
              n \in 1..MaxColumns}

\* the records of a file with `n` records under `header`
RecordsFor(header, n) == [i \in 1..n |-> [k \in DOMAIN header |-> ToString(i)]]

\* the wide-table QueryResult of a file with `header` and `n` records
QueryResultOf(header, n) ==
    ExecuteWideTableQuery(
        OkResult(header, ParseRecords(header, RecordsFor(header, n), <<>>).rows, n))

\* the rows handed to the export: those of the result, the first one without
\* the columns in `omit`
ExportData(qr, omit) ==
    [rows |-> [i \in DOMAIN qr.rows |->
                  IF i = 1
                  THEN [k \in DOMAIN qr.rows[i] \ omit |-> qr.rows[i][k]]
                  ELSE qr.rows[i]]]

\* a wide-table query has returned `qr`; its rows are about to be exported
InitExport ==
    /\ InitQuery
    /\ \E header \in Headers, n \in 0..MaxRows, omit \in {{}} \cup {{c} : c \in ColumnNames} :
          input = [header |-> header,
                   qr |-> QueryResultOf(header, n),
                   data |-> ExportData(QueryResultOf(header, n), omit)]
    /\ output = NoExport
    /\ IdleConfig

ExportToCsv ==
    /\ output = NoExport
    /\ \E create_ok \in BOOLEAN : output' = ExportToCsvResult(input.data, create_ok)
    /\ UNCHANGED <<input, CONFIG, config_files, loaders>>
    /\ UNCHANGED <<query_vars, session_vars>>

NextExport == ExportToCsv

SpecExport == InitExport /\ [][NextExport]_vars

\* ------------------------------------------------------------------ load_config

\* OnceLock::get_or_init on a cell without a value: the caller runs the
\* initializer only if no other thread is running it
MustRunInitializer_NoLock(config) == config.state # "init"

MustRunInitializer(config) == config.state = "uninit"

\* the initializer's choice once both files have been tried
FirstSuccessful(seen_exe, seen_project) ==
    IF seen_exe \in ValidConfigs THEN seen_exe
    ELSE IF seen_project \in ValidConfigs THEN seen_project
    ELSE "default"

\* the files exist in any state when the process starts; `input` counts the
\* load_config calls, `output` collects the values they returned
InitConfig ==
    /\ InitQuery
    /\ CONFIG = ConfigUninit
    /\ config_files \in [exe : ConfigFileStates, project : ConfigFileStates]
    /\ loaders = [t \in Loaders |-> [pc |-> "idle", got |-> "none"]]
    /\ input = 0
    /\ output = {}

\* thread t leaves load_config with `value`
LoadReturns(t, value) ==
    /\ loaders' = [loaders EXCEPT ![t] = [pc |-> "returned", got |-> value]]
    /\ output' = output \cup {value}

\* load_config: CONFIG.get_or_init(..) returns the stored value, starts the
\* initializer, or waits for the thread that runs it
CallLoadConfig(t) ==
    /\ loaders[t].pc = "idle"
    /\ input < MaxLoads
    /\ input' = input + 1
    /\ IF CONFIG.state = "init"
       THEN LoadReturns(t, CONFIG.value) /\ UNCHANGED CONFIG
       ELSE IF MustRunInitializer(CONFIG)
       THEN /\ CONFIG' = [CONFIG EXCEPT !.state = "running"]
            /\ loaders' = [loaders EXCEPT ![t].pc = "exe"]
            /\ UNCHANGED output
       ELSE /\ loaders' = [loaders EXCEPT ![t].pc = "blocked"]
            /\ UNCHANGED <<CONFIG, output>>
    /\ UNCHANGED config_files
    /\ UNCHANGED <<query_vars, session_vars>>

\* the initializer, step 1: the file next to the executable (current_exe may
\* fail; the file may be absent or not parse)
TryExe(t) ==
    /\ loaders[t].pc = "exe"
    /\ \E exe_ok \in BOOLEAN :
        LET seen == IF exe_ok THEN config_files.exe ELSE "absent" IN
        IF seen \in ValidConfigs
        THEN /\ CONFIG' = [CONFIG EXCEPT !.state = "init", !.value = seen, !.seen_exe = seen]
             /\ LoadReturns(t, seen)
        ELSE /\ CONFIG' = [CONFIG EXCEPT !.seen_exe = seen]
             /\ loaders' = [loaders EXCEPT ![t].pc = "project"]
             /\ UNCHANGED output
    /\ UNCHANGED <<input, config_files>>
    /\ UNCHANGED <<query_vars, session_vars>>

\* the initializer, steps 2 and 3: the file in the project root, else
\* default_config()
TryProject(t) ==
    /\ loaders[t].pc = "project"
    /\ LET seen == config_files.project
           value == FirstSuccessful(CONFIG.seen_exe, seen)
       IN  /\ CONFIG' = [CONFIG EXCEPT !.state = "init", !.value = value,
                                       !.seen_project = seen]
           /\ LoadReturns(t, value)
    /\ UNCHANGED <<input, config_files>>
    /\ UNCHANGED <<query_vars, session_vars>>

\* a thread that waited in get_or_init gets the value the initializer stored
WakeLoader(t) ==
    /\ loaders[t].pc = "blocked"
    /\ CONFIG.state = "init"
    /\ LoadReturns(t, CONFIG.value)
    /\ UNCHANGED <<input, CONFIG, config_files>>
    /\ UNCHANGED <<query_vars, session_vars>>

\* the caller goes on and may call load_config again
LoaderContinues(t) ==
    /\ loaders[t].pc = "returned"
    /\ loaders' = [loaders EXCEPT ![t] = [pc |-> "idle", got |-> "none"]]
    /\ UNCHANGED <<input, output, CONFIG, config_files>>
    /\ UNCHANGED <<query_vars, session_vars>>

\* somebody writes, replaces or removes one of the two files
ChangeConfigFile ==
    /\ \E which \in {"exe", "project"}, f \in ConfigFileStates :
        /\ config_files[which] # f
        /\ config_files' = [config_files EXCEPT ![which] = f]
    /\ UNCHANGED <<input, output, CONFIG, loaders>>
    /\ UNCHANGED <<query_vars, session_vars>>

NextConfig ==
    \/ \E t \in Loaders : CallLoadConfig(t)
    \/ \E t \in Loaders : TryExe(t)
    \/ \E t \in Loaders : TryProject(t)
    \/ \E t \in Loaders : WakeLoader(t)
    \/ \E t \in Loaders : LoaderContinues(t)
    \/ ChangeConfigFile

SpecConfig == InitConfig /\ [][NextConfig]_vars

\* ------------------------------------------------------------------ filter_and_extract_fields alone

\* serde_json::Value
ValueNull == [kind |-> "null", v |-> ""]

ValueString(s) == [kind |-> "string", v |-> s]

ValueNumber(n) == [kind |-> "number", v |-> n]

ValueObject(m) == [kind |-> "object", v |-> m]

\* no entry under a key of a row
NoEntry == [kind |-> "absent", v |-> ""]

\* the empty HashMap
EmptyMap == [k \in {} |-> ValueNull]

\* HashMap::insert: a later insert under the same key replaces the entry
MapInsert(m, k, v) == [x \in DOMAIN m \cup {k} |-> IF x = k THEN v ELSE m[x]]

\* a value token of a JSON text as a Value
JsonValue(tok) ==
    IF tok = "null" THEN ValueNull
    ELSE IF IsDigits(tok) THEN ValueNumber(tok)
    ELSE ValueString(tok)

\* serde_json::from_str::<HashMap<String, Value>>(s).ok(): the map of an
\* object text (the last entry of a repeated key is kept), None for any
\* other text
JsonParseObject(s) ==
    IF ~IsJsonObject(s) THEN [some |-> FALSE, map |-> EmptyMap]
    ELSE LET inner == JsonInner(s)
             keys == {inner[i] : i \in {j \in 1..Len(inner) : j % 4 = 1}}
             last(k) == CHOOSE i \in JsonKeyAt(s, k) : \A j \in JsonKeyAt(s, k) : j <= i
         IN  [some |-> TRUE, map |-> [k \in keys |-> JsonValue(inner[last(k) + 2])]]

\* str::to_uppercase of the device types in use
ToUppercase(s) ==
    CASE s = "inv" -> "INV"
      [] s = "Pcs" -> "PCS"
      [] s = "default" -> "DEFAULT"
      [] OTHER -> s

\* `device_type`: the row's "device_type" when it is a string, in upper
\* case; "default" otherwise
DeviceTypeOf(obj) ==
    IF "device_type" \in DOMAIN obj /\ obj["device_type"].kind = "string"
    THEN ToUppercase(obj["device_type"].v)
    ELSE "default"

\* `payload_data`: None for null, "", an empty object, a text that is not an
\* object and any other kind of value
PayloadData(payload_json) ==
    CASE payload_json.kind = "string" ->
            IF payload_json.v = <<>> THEN [some |-> FALSE, map |-> EmptyMap]
            ELSE JsonParseObject(payload_json.v)
      [] payload_json.kind = "object" ->
            IF DOMAIN payload_json.v = {} THEN [some |-> FALSE, map |-> EmptyMap]
            ELSE [some |-> TRUE, map |-> payload_json.v]
      [] OTHER -> [some |-> FALSE, map |-> EmptyMap]

\* `fields_to_extract`: the list under the device type, else the list under
\* "default", else the empty list
FieldsToExtract(extract_config, device_type) ==
    IF device_type \in DOMAIN extract_config THEN extract_config[device_type]
    ELSE IF "default" \in DOMAIN extract_config THEN extract_config["default"]
    ELSE <<>>

\* `output_field_name`: the mapped name, the field name itself if unmapped
OutputFieldName_Prefixed(field_mapping, field_key, obj) ==
    LET name == IF field_key \in DOMAIN field_mapping THEN field_mapping[field_key]
                ELSE field_key
    IN  IF "device_sn" \in DOMAIN obj /\ obj["device_sn"].kind = "string"
        THEN obj["device_sn"].v \o "_" \o name
        ELSE name

OutputFieldName(field_mapping, field_key, obj) ==
    IF field_key \in DOMAIN field_mapping THEN field_mapping[field_key] ELSE field_key

\* `for field in main_table_fields`: the main fields present on the row
RECURSIVE KeepMainFields(_, _, _)
KeepMainFields(main_table_fields, obj, new_row) ==
    IF main_table_fields = <<>> THEN new_row
    ELSE LET field == Head(main_table_fields) IN
         KeepMainFields(Tail(main_table_fields), obj,
                        IF field \in DOMAIN obj
                        THEN MapInsert(new_row, field, obj[field])
                        ELSE new_row)

\* `for field_key in fields_to_extract`: the listed fields present in the
\* payload with a value other than null, inserted in list order
RECURSIVE ExtractFields(_, _, _, _, _)
ExtractFields(fields_to_extract, payload, field_mapping, obj, new_row) ==
    IF fields_to_extract = <<>> THEN new_row
    ELSE LET field_key == Head(fields_to_extract) IN
         ExtractFields(Tail(fields_to_extract), payload, field_mapping, obj,
                       IF field_key \in DOMAIN payload /\ payload[field_key] # ValueNull
                       THEN MapInsert(new_row, OutputFieldName(field_mapping, field_key, obj),
                                      payload[field_key])
                       ELSE new_row)

\* the body of `for row in data` for a row that is an object
FilterRow(obj, config) ==
    LET kept == KeepMainFields(config.main_table_fields, obj, EmptyMap)
        payload_data == IF "payload_json" \in DOMAIN obj
                        THEN PayloadData(obj["payload_json"])
                        ELSE [some |-> FALSE, map |-> EmptyMap]
    IN  IF payload_data.some
        THEN ExtractFields(FieldsToExtract(config.extract_from_payload, DeviceTypeOf(obj)),
                           payload_data.map, config.field_name_mapping, obj, kept)
        ELSE kept

\* filter_and_extract_fields: one output row per row that is an object
RECURSIVE FilterAndExtractFields(_, _)
FilterAndExtractFields(data, config) ==
    IF data = <<>> THEN <<>>
    ELSE IF Head(data).kind = "object"
    THEN <<FilterRow(Head(data).v, config)>> \o FilterAndExtractFields(Tail(data), config)
    ELSE FilterAndExtractFields(Tail(data), config)

\* the "device_type" entries of the enumerated rows (NoEntry: no entry)
RowDeviceTypes ==
    {NoEntry, ValueString("inv"), ValueString("INV"), ValueString("Pcs"), ValueNumber("7")}

\* the "payload_json" entries of the enumerated rows (NoEntry: no entry)
RowPayloads ==
    {NoEntry, ValueNull, ValueNumber("7"),
     ValueString(<<>>), ValueString(<<"oops">>), ValueString(<<"{", "}">>),
     ValueString(<<"{", "x", ":", "1", ",", "y", ":", "null", "}">>),
     ValueObject(EmptyMap),
     ValueObject([k \in {"x", "y"} |-> IF k = "x" THEN ValueNumber("1") ELSE ValueNull]),
     ValueObject([k \in {"x", "z"} |-> IF k = "x" THEN ValueString("a") ELSE ValueNumber("2")])}

\* the enumerated rows: device_sn "d1", a device_type, a payload_json
RowOf(device_type, payload_json) ==
    LET keys == {"device_sn", "other"}
                \cup (IF device_type = NoEntry THEN {} ELSE {"device_type"})
                \cup (IF payload_json = NoEntry THEN {} ELSE {"payload_json"})
    IN  [k \in keys |->
            CASE k = "device_sn" -> ValueString("d1")
              [] k = "other" -> ValueNumber("0")
              [] k = "device_type" -> device_type
              [] OTHER -> payload_json]

\* the enumerated `extract_from_payload` tables
ExtractConfigs ==
    {EmptyMap,
     [k \in {"INV"} |-> <<"x", "y", "z">>],
     [k \in {"inv"} |-> <<"x", "y", "z">>],
     [k \in {"default"} |-> <<"z", "x">>],
     [k \in {"INV", "default"} |-> IF k = "INV" THEN <<"x", "y">> ELSE <<"z">>],
     [k \in {"inv", "default"} |-> IF k = "inv" THEN <<"x", "y">> ELSE <<"z">>],
     [k \in {"INV", "default"} |-> IF k = "INV" THEN <<>> ELSE <<"z", "x">>]}

\* the enumerated `field_name_mapping` tables
FieldNameMappings ==
    {EmptyMap,
     [k \in {"x"} |-> "power"],
     [k \in {"x"} |-> "z"],
     [k \in {"x", "z"} |-> IF k = "x" THEN "device_sn" ELSE "power"]}

ExportConfigs ==
    {[main_table_fields |-> <<"device_sn", "device_type">>,
      extract_from_payload |-> e, field_name_mapping |-> m] :
        e \in ExtractConfigs, m \in FieldNameMappings}

\* filter_and_extract_fields has not run / has returned `rows`
NotFiltered == [tag |-> "none", rows |-> <<>>]

Filtered(rows) == [tag |-> "filtered", rows |-> rows]

\* one row and a configuration are about to be filtered
InitExtract ==
    /\ InitQuery
    /\ \E device_type \in RowDeviceTypes, payload_json \in RowPayloads, config \in ExportConfigs :
          input = [row |-> RowOf(device_type, payload_json), config |-> config]
    /\ output = NotFiltered
    /\ IdleConfig

\* filter_and_extract_fields(&[row], &config)
ApplyFilterAndExtract ==
    /\ output = NotFiltered
    /\ output' = Filtered(FilterAndExtractFields(<<ValueObject(input.row)>>, input.config))
    /\ UNCHANGED <<input, CONFIG, config_files, loaders>>
    /\ UNCHANGED <<query_vars, session_vars>>

NextExtract == ApplyFilterAndExtract

SpecExtract == InitExtract /\ [][NextExtract]_vars

\* ------------------------------------------------------------------ the script's inputs

\* the code points the enumerated paths and SQL texts are made of: the double
\* and single quote, the backslash, the newline, a letter, and characters of
\* two, three and four UTF-8 bytes
TextAlphabet == {34, 39, 92, 10, 97, 233, 20013, 128512}

\* every sequence over S of at most n elements
SeqsUpTo(S, n) == UNION {[1..k -> S] : k \in 0..n}

\* the UTF-8 bytes of one char
Utf8Char(c) ==
    IF c < 128 THEN <<c>>
    ELSE IF c < 2048 THEN <<192 + (c \div 64), 128 + (c % 64)>>
    ELSE IF c < 65536 THEN <<224 + (c \div 4096), 128 + ((c \div 64) % 64), 128 + (c % 64)>>
    ELSE <<240 + (c \div 262144), 128 + ((c \div 4096) % 64), 128 + ((c \div 64) % 64), 128 + (c % 64)>>

\* str::as_bytes
RECURSIVE AsBytes(_)
AsBytes(s) == IF s = <<>> THEN <<>> ELSE Utf8Char(Head(s)) \o AsBytes(Tail(s))

\* the alphabet of general_purpose::STANDARD and of Python's base64 module
B64Alphabet == "ABCDEFGHIJKLMNOPQRSTUVWXYZabcdefghijklmnopqrstuvwxyz0123456789+/"

Sextet(n) == Char(B64Alphabet, n + 1)

\* an engine that writes no padding
RECURSIVE Base64Encode_NoPad(_)
Base64Encode_NoPad(bytes) ==
    IF bytes = <<>> THEN ""
    ELSE IF Len(bytes) = 1
    THEN Sextet(bytes[1] \div 4) \o Sextet((bytes[1] % 4) * 16)
    ELSE IF Len(bytes) = 2
    THEN Sextet(bytes[1] \div 4) \o Sextet((bytes[1] % 4) * 16 + (bytes[2] \div 16))
         \o Sextet((bytes[2] % 16) * 4)
    ELSE Sextet(bytes[1] \div 4) \o Sextet((bytes[1] % 4) * 16 + (bytes[2] \div 16))
         \o Sextet((bytes[2] % 16) * 4 + (bytes[3] \div 64)) \o Sextet(bytes[3] % 64)
         \o Base64Encode_NoPad(SubSeq(bytes, 4, Len(bytes)))

\* general_purpose::STANDARD.encode: three bytes give four characters, a
\* last group of one or two bytes is padded with '='
RECURSIVE Base64Encode(_)
Base64Encode(bytes) ==
    IF bytes = <<>> THEN ""
    ELSE IF Len(bytes) = 1
    THEN Sextet(bytes[1] \div 4) \o Sextet((bytes[1] % 4) * 16) \o "=="
    ELSE IF Len(bytes) = 2
    THEN Sextet(bytes[1] \div 4) \o Sextet((bytes[1] % 4) * 16 + (bytes[2] \div 16))
         \o Sextet((bytes[2] % 16) * 4) \o "="
    ELSE Sextet(bytes[1] \div 4) \o Sextet((bytes[1] % 4) * 16 + (bytes[2] \div 16))
         \o Sextet((bytes[2] % 16) * 4 + (bytes[3] \div 64)) \o Sextet(bytes[3] % 64)
         \o Base64Encode(SubSeq(bytes, 4, Len(bytes)))

\* `python_script`: the lines of the script that depend on the arguments of
\* format!, between the lines before and after them
PythonScript(db_path_b64, sql_b64, temp_file) ==
    <<"import base64",
      "try:",
      "    db_path = base64.b64decode(\"" \o db_path_b64 \o "\").decode('utf-8')",
      "    sql = base64.b64decode(\"" \o sql_b64 \o "\").decode('utf-8')",
      "    temp_file = \"" \o temp_file \o "\"",
      "    conn = sqlite3.connect(db_path)",
      "    cursor.execute(sql)",
      "except Exception as e:",
      "    sys.exit(1)">>

\* `eof_marker`
EofMarker == "PYTHON_SCRIPT_EOF_0a1b2c3d"

\* `command`: the lines of `python3 << '<marker>'\n<script>\n<marker>`
Command(eof_marker, python_script) ==
    <<"python3 << '" \o eof_marker \o "'">> \o python_script \o <<eof_marker>>

\* the shell's here-document with a quoted delimiter: the lines after the
\* first, unchanged, up to the first line that is the delimiter
HeredocBody(command, eof_marker) ==
    LET ends == {i \in 2..Len(command) : command[i] = eof_marker}
    IN  IF ends = {} THEN SubSeq(command, 2, Len(command))
        ELSE SubSeq(command, 2, MinOf(ends) - 1)

\* the value of the Python string literal that opens with the first double
\* quote of `line`: the characters up to the next double quote
PyStringLiteral(line) ==
    LET quotes == {i \in 1..Len(line) : Char(line, i) = "\""}
        open == MinOf(quotes)
        close == MinOf({i \in quotes : i > open})
    IN  IF Cardinality(quotes) < 2 THEN ""
        ELSE SubSeq(line, open + 1, close - 1)

IsB64Char(c) == \E i \in 1..Len(B64Alphabet) : Char(B64Alphabet, i) = c

SextetOf(c) == (CHOOSE i \in 1..Len(B64Alphabet) : Char(B64Alphabet, i) = c) - 1

\* the characters base64.b64decode looks at: those of the alphabet and '='
RECURSIVE B64Significant(_)
B64Significant(t) ==
    IF t = "" THEN ""
    ELSE (IF IsB64Char(Char(t, 1)) \/ Char(t, 1) = "=" THEN Char(t, 1) ELSE "")
         \o B64Significant(SubSeq(t, 2, Len(t)))

\* the bytes of groups of four characters; padding ends the data
RECURSIVE B64Groups(_)
B64Groups(t) ==
    IF Len(t) < 4 THEN <<>>
    ELSE LET a == SextetOf(Char(t, 1))
             b == SextetOf(Char(t, 2))
         IN  IF Char(t, 3) = "=" THEN <<a * 4 + (b \div 16)>>
             ELSE IF Char(t, 4) = "="
             THEN <<a * 4 + (b \div 16), (b % 16) * 16 + (SextetOf(Char(t, 3)) \div 4)>>
             ELSE <<a * 4 + (b \div 16), (b % 16) * 16 + (SextetOf(Char(t, 3)) \div 4),
                    (SextetOf(Char(t, 3)) % 4) * 64 + SextetOf(Char(t, 4))>>
                  \o B64Groups(SubSeq(t, 5, Len(t)))

\* the script's failure / the value it has decoded
Raised == [ok |-> FALSE, value |-> <<>>]

Decoded(value) == [ok |-> TRUE, value |-> value]

\* base64.b64decode(text): binascii.Error ("Incorrect padding") unless the
\* significant characters come in groups of four with '=' only at the end of
\* the last group
B64Decode(text) ==
    LET t == B64Significant(text)
        pads == {i \in 1..Len(t) : Char(t, i) = "="}
    IN  IF Len(t) % 4 # 0 \/ \E i \in pads : i < Len(t) - 1
           \/ (Len(t) - 1 \in pads /\ Len(t) \notin pads)
        THEN Raised
        ELSE Decoded(B64Groups(t))

\* bytes.decode('utf-8') of the first char of `bytes`: its code point and
\* its length, length 0 for an invalid sequence
Utf8First(bytes) ==
    LET b == bytes[1]
        cont(i) == i <= Len(bytes) /\ bytes[i] \div 64 = 2
    IN  IF b < 128 THEN [len |-> 1, c |-> b]
        ELSE IF b \div 32 = 6 /\ cont(2)
        THEN [len |-> 2, c |-> (b % 32) * 64 + (bytes[2] % 64)]
        ELSE IF b \div 16 = 14 /\ cont(2) /\ cont(3)
        THEN [len |-> 3, c |-> (b % 16) * 4096 + (bytes[2] % 64) * 64 + (bytes[3] % 64)]
        ELSE IF b \div 8 = 30 /\ cont(2) /\ cont(3) /\ cont(4)
        THEN [len |-> 4, c |-> (b % 8) * 262144 + (bytes[2] % 64) * 4096
                               + (bytes[3] % 64) * 64 + (bytes[4] % 64)]
        ELSE [len |-> 0, c |-> 0]

\* bytes.decode('utf-8'): UnicodeDecodeError on an invalid sequence
RECURSIVE Utf8Decode(_)
Utf8Decode(bytes) ==
    IF bytes = <<>> THEN Decoded(<<>>)
    ELSE LET first == Utf8First(bytes)
             rest == Utf8Decode(SubSeq(bytes, first.len + 1, Len(bytes)))
         IN  IF first.len = 0 \/ ~rest.ok THEN Raised
             ELSE Decoded(<<first.c>> \o rest.value)

\* `base64.b64decode("<text>").decode('utf-8')` as the interpreter runs the
\* line
ScriptDecode(line) ==
    LET bytes == B64Decode(PyStringLiteral(line))
    IN  IF bytes.ok THEN Utf8Decode(bytes.value) ELSE Raised

\* no command has been built / the command and what the script decoded
NoCommand == [command |-> <<>>, ran |-> FALSE, db_path |-> Raised, sql |-> Raised]

\* the enumerated database paths and SQL texts
DbPaths == SeqsUpTo(TextAlphabet, 1)

SqlTexts == SeqsUpTo(TextAlphabet, MaxSqlLen)

\* execute_sql_query is about to encode db_path and sql
InitEncode ==
    /\ InitQuery
    /\ \E db_path \in DbPaths, sql \in SqlTexts : input = [db_path |-> db_path, sql |-> sql]
    /\ output = NoCommand
    /\ IdleConfig

\* execute_sql_query from the encoding of sql and db_path to `command`
BuildCommand ==
    /\ output.command = <<>>
    /\ LET sql_b64 == Base64Encode(AsBytes(input.sql))
           db_path_b64 == Base64Encode(AsBytes(input.db_path))
           temp_file == TempFile("execute_query", 1)[1]
       IN  output' = [output EXCEPT
                !.command = Command(EofMarker, PythonScript(db_path_b64, sql_b64, temp_file))]
    /\ UNCHANGED <<input, CONFIG, config_files, loaders>>
    /\ UNCHANGED <<query_vars, session_vars>>

\* the remote shell passes the here-document to the interpreter, which runs
\* the two decoding lines of the script
ScriptDecodes ==
    /\ output.command # <<>>
    /\ ~output.ran
    /\ LET script == HeredocBody(output.command, EofMarker)
       IN  output' = [output EXCEPT !.ran = TRUE,
                                    !.db_path = ScriptDecode(script[3]),
                                    !.sql = ScriptDecode(script[4])]
    /\ UNCHANGED <<input, CONFIG, config_files, loaders>>
    /\ UNCHANGED <<query_vars, session_vars>>

NextEncode == BuildCommand \/ ScriptDecodes

SpecEncode == InitEncode /\ [][NextEncode]_vars

\* ------------------------------------------------------------------ the generated query script alone

\* the exceptions the statements of the script raise, as str(e)
ScriptErrors ==
    [imports |-> "No module named '_sqlite3'",
     connect |-> "unable to open database file",
     execute |-> "no such table: data_wide",
     open |-> "Permission denied",
     header |-> "No space left on device",
     fetch |-> "database disk image is malformed",
     row |-> "No space left on device",
     close |-> "No space left on device",
     print |-> "Broken pipe",
     conn_close |-> "unable to close"]

\* json.dumps({"error": str(e)}, ensure_ascii=False)
JsonDumpsError(msg) == <<"{", "error", ":", msg, "}">>

\* what the interpreter prints for an exception no handler catches
Traceback(msg) == <<"Traceback (most recent call last):", msg>>

\* the interpreter is about to run the script; no file exists at temp_file
ScriptStart ==
    [pc |-> "imports", stdout |-> <<>>, stderr |-> <<>>, exit |-> -1,
     file |-> "none", written |-> 0]

\* `file`: "none", "open" while the with block runs, "truncated" when closed
\* by an exception, "complete" when closed by the block's normal exit

\* `except Exception as e`: the payload on stderr, sys.exit(1)
Except(s, msg) ==
    [s EXCEPT !.pc = "done", !.stderr = Append(s.stderr, JsonDumpsError(msg)), !.exit = 1]

\* an exception outside the try statement: the traceback, exit status 1
Uncaught(s, msg) ==
    [s EXCEPT !.pc = "done", !.stderr = Append(s.stderr, Traceback(msg)), !.exit = 1]

\* an exception inside `with gzip.open(...)`: the block's exit closes the
\* file with what was written so far, then the handler runs
ExceptInWith(s, msg) == [Except(s, msg) EXCEPT !.file = "truncated"]

\* a statement of the try block that writes nothing: it raises, or control
\* moves on
Statement(s, raises, next) ==
    IF raises THEN Except(s, ScriptErrors[s.pc]) ELSE [s EXCEPT !.pc = next]

\* the import statements, which precede `try:`
Imports ==
    /\ output.pc = "imports"
    /\ \E raises \in BOOLEAN :
          output' = IF raises THEN Uncaught(output, ScriptErrors["imports"])
                    ELSE [output EXCEPT !.pc = "connect"]
    /\ UNCHANGED <<input, CONFIG, config_files, loaders>>
    /\ UNCHANGED <<query_vars, session_vars>>

\* the decoding of db_path and sql, sqlite3.connect, conn.cursor
SqliteConnect ==
    /\ output.pc = "connect"
    /\ \E raises \in BOOLEAN : output' = Statement(output, raises, "execute")
    /\ UNCHANGED <<input, CONFIG, config_files, loaders>>
    /\ UNCHANGED <<query_vars, session_vars>>

\* cursor.execute(sql) and the column names
CursorExecute ==
    /\ output.pc = "execute"
    /\ \E raises \in BOOLEAN : output' = Statement(output, raises, "open")
    /\ UNCHANGED <<input, CONFIG, config_files, loaders>>
    /\ UNCHANGED <<query_vars, session_vars>>

\* gzip.open(temp_file, 'wt', ...) of either branch: the file is created
GzipOpen ==
    /\ output.pc = "open"
    /\ \E raises \in BOOLEAN :
          output' = IF raises THEN Except(output, ScriptErrors["open"])
                    ELSE [output EXCEPT !.file = "open",
                                        !.pc = IF input.columns THEN "header" ELSE "close"]
    /\ UNCHANGED <<input, CONFIG, config_files, loaders>>
    /\ UNCHANGED <<query_vars, session_vars>>

\* writer.writeheader()
WriteHeader ==
    /\ output.pc = "header"
    /\ \E raises \in BOOLEAN :
          output' = IF raises THEN ExceptInWith(output, ScriptErrors["header"])
                    ELSE [output EXCEPT !.pc = "fetch"]
    /\ UNCHANGED <<input, CONFIG, config_files, loaders>>
    /\ UNCHANGED <<query_vars, session_vars>>

\* cursor.fetchall()
FetchAll ==
    /\ output.pc = "fetch"
    /\ \E raises \in BOOLEAN :
          output' = IF raises THEN ExceptInWith(output, ScriptErrors["fetch"])
                    ELSE [output EXCEPT !.pc = IF input.rows = 0 THEN "close" ELSE "row"]
    /\ UNCHANGED <<input, CONFIG, config_files, loaders>>
    /\ UNCHANGED <<query_vars, session_vars>>

\* writer.writerow(row_dict) for the next row
WriteRow ==
    /\ output.pc = "row"
    /\ \E raises \in BOOLEAN :
          output' = IF raises THEN ExceptInWith(output, ScriptErrors["row"])
                    ELSE [output EXCEPT !.written = @ + 1,
                                        !.pc = IF output.written + 1 = input.rows
                                               THEN "close" ELSE "row"]
    /\ UNCHANGED <<input, CONFIG, config_files, loaders>>
    /\ UNCHANGED <<query_vars, session_vars>>

\* the normal exit of `with gzip.open(...)`: the rest of the compressed
\* stream is written and the file closed
CloseFile ==
    /\ output.pc = "close"
    /\ \E raises \in BOOLEAN :
          output' = IF raises THEN ExceptInWith(output, ScriptErrors["close"])
                    ELSE [output EXCEPT !.file = "complete", !.pc = "print"]
    /\ UNCHANGED <<input, CONFIG, config_files, loaders>>
    /\ UNCHANGED <<query_vars, session_vars>>

\* print(temp_file)
PrintTempFile ==
    /\ output.pc = "print"
    /\ \E raises \in BOOLEAN :
          output' = IF raises THEN Except(output, ScriptErrors["print"])
                    ELSE [output EXCEPT !.stdout = Append(@, input.temp_file),
                                        !.pc = "conn_close"]
    /\ UNCHANGED <<input, CONFIG, config_files, loaders>>
    /\ UNCHANGED <<query_vars, session_vars>>

\* conn.close(), which follows the print inside the try block
ConnClose ==
    /\ output.pc = "conn_close"
    /\ \E raises \in BOOLEAN : output' = Statement(output, raises, "exit")
    /\ UNCHANGED <<input, CONFIG, config_files, loaders>>
    /\ UNCHANGED <<query_vars, session_vars>>

\* sys.exit(0): SystemExit is not an Exception, the handler does not run
SysExit ==
    /\ output.pc = "exit"
    /\ output' = [output EXCEPT !.pc = "done", !.exit = 0]
    /\ UNCHANGED <<input, CONFIG, config_files, loaders>>
    /\ UNCHANGED <<query_vars, session_vars>>

\* the query gives columns or none, and zero or more rows; temp_file is the
\* path of one of the calls
InitScript ==
    /\ InitQuery
    /\ \E columns \in BOOLEAN, rows \in 0..MaxRows, n \in 1..MaxCalls :
          input = [columns |-> columns, rows |-> IF columns THEN rows ELSE 0,
                   temp_file |-> TempFile("execute_query", n)[1]]
    /\ output = ScriptStart
    /\ IdleConfig

NextScript ==
    \/ Imports
    \/ SqliteConnect
    \/ CursorExecute
    \/ GzipOpen
    \/ WriteHeader
    \/ FetchAll
    \/ WriteRow
    \/ CloseFile
    \/ PrintTempFile
    \/ ConnClose
    \/ SysExit

SpecScript == InitScript /\ [][NextScript]_vars

\* ------------------------------------------------------------------ concurrent calls on the shared session

\* the Arc<Client> of the n-th session Client::connect has opened
ClientArc(n) == "client" \o ToString(n)

\* the SshConfig the n-th session was opened with
ConfigOf(n) == "config" \o ToString(n)

\* a connect that keeps the session already stored
Store_KeepsFirst(stored, client_arc) == IF stored = "None" THEN client_arc ELSE stored

\* `*SSH_CLIENT.lock().unwrap() = Some(client_arc)`
Store(stored, client_arc) == client_arc

\* a disconnect that leaves the session stored
Take_Keeps(stored) == stored

\* `SSH_CLIENT.lock().unwrap().take()`: what is left in the static
Take(stored) == "None"

\* SshClient::get_client: a clone of the stored Arc, an error when none is
\* stored; the lock is released when get_client returns
GetClient(stored) == [ok |-> stored # "None", client |-> stored]

\* the commands that use the session: a query, an export, a deployment
CallKinds == {"execute_query", "export_wide_table_direct", "deploy_application"}

\* the stages of a call at which it invokes a primitive of SshClient
OpStages == {"script", "script2", "download", "rm", "upload"}

\* the remote path a call takes from its script's stdout
RemotePathOf(fn, stdout) ==
    IF fn = "execute_query" THEN Trim(stdout) ELSE <<JsonGet(Trim(stdout), "file")>>

\* the temp file paths the primitive of the task's stage works on
StagePaths(task) ==
    CASE task.pc \in {"script", "script2"} -> {task.temp_file}
      [] task.pc = "download" -> {task.remote_temp_file, task.local_temp_path}
      [] task.pc = "rm" -> {task.remote_temp_file}
      [] OTHER -> {}

\* ssh_connect: SshClient::connect stores the new session when
\* Client::connect succeeds and changes nothing when it fails
SshConnect ==
    /\ connects < MaxConnects
    /\ \E ok \in BOOLEAN :
          IF ok
          THEN /\ connects' = connects + 1
               /\ SSH_CLIENT' = Store(SSH_CLIENT, ClientArc(connects + 1))
               /\ SSH_CONFIG' = ConfigOf(connects + 1)
          ELSE UNCHANGED <<connects, SSH_CLIENT, SSH_CONFIG>>
    /\ UNCHANGED <<log_callback, remote_fs, local_fs, output_file, calls, pc, loc, ops, result>>
    /\ UNCHANGED <<input, output, CONFIG, config_files, loaders, tasks>>

\* ssh_disconnect: SshClient::disconnect
SshDisconnect ==
    /\ SSH_CLIENT' = Take(SSH_CLIENT)
    /\ SSH_CONFIG' = "None"
    /\ UNCHANGED <<log_callback, remote_fs, local_fs, output_file, calls, pc, loc, ops, result>>
    /\ UNCHANGED <<input, output, CONFIG, config_files, loaders, tasks, connects>>

\* caller t invokes a command: the code up to its first primitive, with the
\* temp file path made from a fresh uuid
StartCall(t) ==
    /\ tasks[t].pc = "idle"
    /\ calls < MaxCalls
    /\ calls' = calls + 1
    /\ \E fn \in CallKinds :
          tasks' = [tasks EXCEPT ![t] =
              [NoTask EXCEPT !.fn = fn,
                             !.call = calls + 1,
                             !.used = tasks[t].used,
                             !.pc = IF fn = "deploy_application" THEN "upload" ELSE "script",
                             !.temp_file = IF fn = "deploy_application" THEN <<>>
                                           ELSE TempFile(fn, calls + 1)]]
    /\ UNCHANGED <<SSH_CLIENT, log_callback, remote_fs, local_fs, output_file, pc, loc, ops, result>>
    /\ UNCHANGED <<input, output, CONFIG, config_files, loaders, connects, SSH_CONFIG>>

\* the primitive of t's stage starts: get_client, then the command or the
\* transfer is sent on the session it returned.  Without a session the
\* primitive returns the error, which ends the call except at the remote
\* delete, whose error is dropped.
BeginOp(t) ==
    /\ tasks[t].pc \in OpStages
    /\ tasks[t].client = "None"
    /\ LET task == tasks[t]
           got == GetClient(SSH_CLIENT)
       IN  tasks' = [tasks EXCEPT ![t] =
               IF got.ok
               THEN [task EXCEPT !.client = got.client,
                                 !.used = @ \cup {[call |-> task.call, path |-> p] :
                                                     p \in StagePaths(task)}]
               ELSE IF task.pc = "rm"
               THEN [task EXCEPT !.pc = "done", !.result = "Ok"]
               ELSE [task EXCEPT !.pc = "done", !.result = "not connected"]]
    /\ UNCHANGED <<SSH_CLIENT, log_callback, remote_fs, local_fs, output_file, calls, pc, loc, ops,
                   result>>
    /\ UNCHANGED <<input, output, CONFIG, config_files, loaders, connects, SSH_CONFIG>>

\* the primitive of t's stage returns and the call runs up to its next
\* primitive or to its return
EndOp(t) ==
    /\ tasks[t].client # "None"
    /\ LET task == [tasks[t] EXCEPT !.client = "None"] IN
       \E ok, retry \in BOOLEAN :
          tasks' = [tasks EXCEPT ![t] =
              CASE task.pc = "rm" -> [task EXCEPT !.pc = "done", !.result = "Ok"]
                [] ~ok -> [task EXCEPT !.pc = "done", !.result = "failed"]
                [] task.pc = "script" /\ retry -> [task EXCEPT !.pc = "script2"]
                [] task.pc \in {"script", "script2"} ->
                      [task EXCEPT !.pc = "download",
                                   !.remote_temp_file =
                                       RemotePathOf(task.fn,
                                                    SuccessStdout(task.fn, task.temp_file)),
                                   !.local_temp_path = LocalTempPath(task.call)]
                [] task.pc = "download" -> [task EXCEPT !.pc = "rm"]
                [] OTHER -> [task EXCEPT !.pc = "done", !.result = "Ok"]]
    /\ UNCHANGED <<SSH_CLIENT, log_callback, remote_fs, local_fs, output_file, calls, pc, loc, ops,
                   result>>
    /\ UNCHANGED <<input, output, CONFIG, config_files, loaders, connects, SSH_CONFIG>>

\* caller t takes the returned value
FinishCall(t) ==
    /\ tasks[t].pc = "done"
    /\ tasks' = [tasks EXCEPT ![t] = [NoTask EXCEPT !.used = tasks[t].used]]
    /\ UNCHANGED <<SSH_CLIENT, log_callback, remote_fs, local_fs, output_file, calls, pc, loc, ops,
                   result>>
    /\ UNCHANGED <<input, output, CONFIG, config_files, loaders, connects, SSH_CONFIG>>

InitSession == InitQuery /\ InitAux

NextSession ==
    \/ SshConnect
    \/ SshDisconnect
    \/ \E t \in Tasks : StartCall(t)
    \/ \E t \in Tasks : BeginOp(t)
    \/ \E t \in Tasks : EndOp(t)
    \/ \E t \in Tasks : FinishCall(t)

SpecSession == InitSession /\ [][NextSession]_vars

\* ------------------------------------------------------------------ deployment: the status probes

\* str::to_lowercase of the ASCII letters
UpperLetters == "ABCDEFGHIJKLMNOPQRSTUVWXYZ"
LowerLetters == "abcdefghijklmnopqrstuvwxyz"

LowerLetter(c) ==
    IF \E i \in 1..Len(UpperLetters) : Char(UpperLetters, i) = c
    THEN Char(LowerLetters, CHOOSE i \in 1..Len(UpperLetters) : Char(UpperLetters, i) = c)
    ELSE c

RECURSIVE LowerText(_)
LowerText(s) ==
    IF s = "" THEN "" ELSE LowerLetter(Char(s, 1)) \o LowerText(SubSeq(s, 2, Len(s)))

\* str::trim of one line
RECURSIVE StrTrimStart(_)
StrTrimStart(s) ==
    IF s # "" /\ Char(s, 1) \in WhiteSpace THEN StrTrimStart(SubSeq(s, 2, Len(s))) ELSE s

RECURSIVE StrTrimEnd(_)
StrTrimEnd(s) ==
    IF s # "" /\ Char(s, Len(s)) \in WhiteSpace THEN StrTrimEnd(SubSeq(s, 1, Len(s) - 1)) ELSE s

StrTrim(s) == StrTrimEnd(StrTrimStart(s))

\* str::contains
StrContains(s, pat) ==
    \E i \in 1..(Len(s) - Len(pat) + 1) : SubSeq(s, i, i + Len(pat) - 1) = pat

\* `output.to_lowercase().contains(word)`: an output is the sequence of its
\* lines, and no word holds a line break
OutputContains(stdout, word) ==
    \E i \in DOMAIN stdout : StrContains(LowerText(stdout[i]), word)

\* the first line that is, trimmed, one of the two words
FirstAnswer(stdout, positive, negative) ==
    LET hits == {i \in DOMAIN stdout : StrTrim(stdout[i]) \in {positive, negative}}
    IN  IF hits = {} THEN 0 ELSE CHOOSE i \in hits : \A j \in hits : i <= j

\* an extract_status that looks for the positive word only
ExtractStatus_PositiveOnly(stdout, positive, negative) ==
    IF OutputContains(stdout, positive) THEN "Some(true)" ELSE "None"

\* check_deploy_status::extract_status: Option<bool> as "Some(true)" |
\* "Some(false)" | "None"
ExtractStatus(stdout, positive, negative) ==
    LET first == FirstAnswer(stdout, positive, negative) IN
    IF first # 0
    THEN IF StrTrim(stdout[first]) = positive THEN "Some(true)" ELSE "Some(false)"
    ELSE IF OutputContains(stdout, positive) /\ ~OutputContains(stdout, negative)
    THEN "Some(true)"
    ELSE IF OutputContains(stdout, negative)
    THEN "Some(false)"
    ELSE "None"

\* check_deploy_status::extract_result
ExtractResult(stdout) == ExtractStatus(stdout, "exists", "not_exists")

\* Option::unwrap_or(false)
UnwrapOrFalse(o) == o = "Some(true)"

\* a sudo warning line in front of a command's stdout
SudoWarning == "sudo: unable to resolve host box"

\* stdout of `test -f <file> && echo 'exists' || echo 'not_exists'`; the empty
\* stdout is a shell that printed nothing
FileProbeOutputs(found) ==
    (IF found
     THEN {<<"exists">>, <<SudoWarning, " exists ">>}
     ELSE {<<"not_exists">>, <<SudoWarning, "not_exists">>})
    \cup {<<>>}

\* stdout of `systemctl is-active <unit> 2>/dev/null && echo 'active' || echo 'inactive'`
ActiveProbeOutputs(running) ==
    (IF running
     THEN {<<"active", "active">>}
     ELSE {<<"inactive", "inactive">>, <<"failed", "inactive">>})
    \cup {<<>>}

\* stdout of `systemctl is-enabled <unit> 2>/dev/null && echo 'enabled' || echo 'disabled'`
EnabledProbeOutputs(enabled) ==
    (IF enabled
     THEN {<<"enabled", "enabled">>}
     ELSE {<<"disabled", "disabled">>, <<"static", "disabled">>})
    \cup {<<>>}

\* `DeployStatus { installed: false, ... }`
NoStatus ==
    [installed |-> FALSE, service_exists |-> FALSE, service_running |-> FALSE,
     service_enabled |-> FALSE]
\* ------------------------------------------------------------------ deployment: the remote host and the call

\* The remote host: the installed files, the files uploaded to /tmp, and the
\* systemd unit.  A file is "absent", "old" (installed before the call) or
\* "new" (the one this call uploads).
Hosts ==
    {[binary |-> b, service_file |-> sf, service |-> sv, enabled |-> FALSE,
      config |-> "old", topo |-> "old", tmp_binary |-> "absent",
      tmp_config |-> "absent", tmp_topo |-> "absent"] :
        b \in {"absent", "old"}, sf \in BOOLEAN, sv \in {"stopped", "running"}}

\* a unit runs only when its service file is installed
HostOk(h) == h.service = "running" => h.service_file

\* DeployConfig: upload_binary is Option<bool>, the paths are Option<String>
\* (TRUE = Some)
DeployConfigs ==
    {[upload_binary |-> ub, binary_path |-> p, upload_config |-> uc, config_path |-> p,
      upload_topo |-> ut, topo_path |-> p, use_root |-> ur, start_service |-> ss] :
        ub \in {"None", "Some(false)", "Some(true)"},
        p, uc, ut, ur, ss \in BOOLEAN}

\* check_deploy_status takes no DeployConfig
NoDeployConfig ==
    [upload_binary |-> "None", binary_path |-> FALSE, upload_config |-> FALSE,
     config_path |-> FALSE, upload_topo |-> FALSE, topo_path |-> FALSE, use_root |-> FALSE,
     start_service |-> FALSE]

\* `config.upload_binary.unwrap_or(false)`
UploadBinarySelected(c) == c.upload_binary = "Some(true)"

\* what each probe of check_deploy_status gave: "untried", "Err" (the command
\* could not be run), or the Option<bool> extracted from its output
NoAnswers ==
    [installed |-> "untried", service_exists |-> "untried", service_running |-> "untried",
     service_enabled |-> "untried"]

\* the match on a probe's Result: the flag is assigned in the Ok arm only
Answer(transport_ok, extracted) == IF transport_ok THEN extracted ELSE "Err"

Flag(was, answer) == IF answer = "Err" THEN was ELSE UnwrapOrFalse(answer)

\* the running call
DeployStart(fn, host) ==
    [fn |-> fn, pc |-> "check_binary", status |-> NoStatus, is_update |-> FALSE,
     need_restart |-> FALSE, cmds |-> <<>>, result |-> "none", host |-> host,
     config_upload |-> "untried", topo_upload |-> "untried", answers |-> NoAnswers]

\* `return Err(err_msg)` / `Ok(...)`
DeployReturn(d, res) == [d EXCEPT !.pc = "done", !.result = res]

\* a command handed to SshClient::execute_command or upload_file
Issue(d, cmd) == [d EXCEPT !.cmds = Append(d.cmds, cmd)]

\* a restart decision that ignores whether the service was running
NeedRestart_Always(status, c) == c.upload_config \/ c.upload_topo

\* `need_restart`
NeedRestart(status, c) == status.service_running /\ (c.upload_config \/ c.upload_topo)

\* `if (is_update && status.service_running) || need_restart`
MustStop(status, c) ==
    (status.installed /\ status.service_running) \/ NeedRestart(status, c)

\* the first step after the upload of the binary, of the config, of the
\* topology: each upload is skipped when not selected or when its path is None
AfterTopo(c) == IF ~c.use_root THEN "create_user" ELSE "upload_service"

AfterConfig(c) == IF c.upload_topo /\ c.topo_path THEN "upload_topo" ELSE AfterTopo(c)

AfterBinary(c) == IF c.upload_config /\ c.config_path THEN "upload_config" ELSE AfterConfig(c)

AfterMkdir(c) ==
    IF UploadBinarySelected(c) /\ c.binary_path THEN "upload_binary" ELSE AfterBinary(c)

\* the end of check_deploy_status: `Ok(status)`, and in deploy_application the
\* code up to the stop of the service or the mkdir; of the probes only the
\* status reaches deploy_application
StatusDone(d) ==
    IF d.fn = "check_deploy_status"
    THEN DeployReturn(d, "Ok")
    ELSE [d EXCEPT !.answers = NoAnswers,
                   !.is_update = d.status.installed,
                   !.need_restart = NeedRestart(d.status, input.config),
                   !.pc = IF MustStop(d.status, input.config) THEN "stop" ELSE "mkdir"]

\* a status check that probes the unit whatever the service file probe gave
AfterServiceFile_AlwaysProbes(d) == [d EXCEPT !.pc = "check_active"]

\* after the service file probe: `if status.service_exists`
AfterServiceFile(d) ==
    IF d.status.service_exists THEN [d EXCEPT !.pc = "check_active"] ELSE StatusDone(d)

\* the variables a deployment leaves alone
DeployFrame ==
    /\ UNCHANGED <<input, CONFIG, config_files, loaders>>
    /\ UNCHANGED <<query_vars, session_vars>>

\* `test -f /opt/analysis/bin/analysis-collector`
CheckBinary ==
    /\ output.pc = "check_binary"
    /\ \E transport_ok \in BOOLEAN, stdout \in FileProbeOutputs(output.host.binary # "absent") :
        LET d == Issue(output, "check_binary")
            a == Answer(transport_ok, ExtractResult(stdout))
        IN  output' = [d EXCEPT !.pc = "check_service_file",
                                !.answers.installed = a,
                                !.status.installed = Flag(d.status.installed, a)]
    /\ DeployFrame

\* `sudo test -f <SERVICE_FILE>`; an Err falls back to the probe without sudo
CheckServiceFile ==
    /\ output.pc = "check_service_file"
    /\ \E transport_ok, sudo_ok \in BOOLEAN :
        \E stdout \in FileProbeOutputs(output.host.service_file /\ sudo_ok) :
            LET d == Issue(output, "check_service_file")
                a == Answer(transport_ok, ExtractResult(stdout))
                e == [d EXCEPT !.answers.service_exists = a,
                               !.status.service_exists = Flag(d.status.service_exists, a)]
            IN  output' = IF transport_ok
                          THEN AfterServiceFile(e)
                          ELSE [e EXCEPT !.pc = "check_service_file_no_sudo"]
    /\ DeployFrame

\* `test -f <SERVICE_FILE>`
CheckServiceFileNoSudo ==
    /\ output.pc = "check_service_file_no_sudo"
    /\ \E transport_ok \in BOOLEAN, stdout \in FileProbeOutputs(output.host.service_file) :
        LET d == Issue(output, "check_service_file_no_sudo")
            a == Answer(transport_ok, ExtractResult(stdout))
        IN  output' = AfterServiceFile(
                          [d EXCEPT !.answers.service_exists = a,
                                    !.status.service_exists = Flag(d.status.service_exists, a)])
    /\ DeployFrame

\* `systemctl is-active`
CheckActive ==
    /\ output.pc = "check_active"
    /\ \E transport_ok \in BOOLEAN, stdout \in ActiveProbeOutputs(output.host.service = "running") :
        LET d == Issue(output, "check_active")
            a == Answer(transport_ok, ExtractStatus(stdout, "active", "inactive"))
        IN  output' = [d EXCEPT !.pc = "check_enabled",
                                !.answers.service_running = a,
                                !.status.service_running = Flag(d.status.service_running, a)]
    /\ DeployFrame

\* `systemctl is-enabled`, then the end of check_deploy_status
CheckEnabled ==
    /\ output.pc = "check_enabled"
    /\ \E transport_ok \in BOOLEAN, stdout \in EnabledProbeOutputs(output.host.enabled) :
        LET d == Issue(output, "check_enabled")
            a == Answer(transport_ok, ExtractStatus(stdout, "enabled", "disabled"))
        IN  output' = StatusDone(
                          [d EXCEPT !.answers.service_enabled = a,
                                    !.status.service_enabled = Flag(d.status.service_enabled, a)])
    /\ DeployFrame

\* `sudo systemctl stop`: a failure is logged and the deployment goes on
StopService ==
    /\ output.pc = "stop"
    /\ \E transport_ok, exit_ok \in BOOLEAN :
        LET d == Issue(output, "stop") IN
        output' = [d EXCEPT !.pc = "mkdir",
                            !.host.service = IF transport_ok /\ exit_ok THEN "stopped"
                                             ELSE d.host.service]
    /\ DeployFrame

\* `sudo mkdir -p /opt/analysis/bin`: a failure returns
Mkdir ==
    /\ output.pc = "mkdir"
    /\ \E ok \in BOOLEAN :
        LET d == Issue(output, "mkdir") IN
        output' = IF ok THEN [d EXCEPT !.pc = AfterMkdir(input.config)]
                  ELSE DeployReturn(d, "Err")
    /\ DeployFrame

\* std::fs::metadata(binary_path), then upload_file to /tmp: either failure
\* returns
UploadBinary ==
    /\ output.pc = "upload_binary"
    /\ \E meta_ok, transport_ok \in BOOLEAN :
        output' = IF ~meta_ok THEN DeployReturn(output, "Err")
                  ELSE LET d == Issue(output, "upload_binary") IN
                       IF transport_ok
                       THEN [d EXCEPT !.pc = "verify_binary", !.host.tmp_binary = "new"]
                       ELSE DeployReturn(d, "Err")
    /\ DeployFrame

\* `test -f /tmp/analysis-collector && ls -lh ...`: the answer is only logged
VerifyBinary ==
    /\ output.pc = "verify_binary"
    /\ output' = [Issue(output, "verify_binary") EXCEPT !.pc = "move_binary"]
    /\ DeployFrame

\* `sudo rm -f <file> && sudo mv <tmp> <file> && ...`: what is installed after
\* the command chain, which stops at the first command that fails
Installed(was, tmp, sudo_ok) ==
    IF ~sudo_ok THEN was
    ELSE IF tmp = "absent" THEN "absent"
    ELSE tmp

\* what is left in /tmp after the command chain
LeftInTmp(tmp, sudo_ok) == IF sudo_ok THEN "absent" ELSE tmp

\* `sudo rm -f <bin> && sudo mv /tmp/<bin> <bin> && chmod && chown`: a failure
\* returns
MoveBinary ==
    /\ output.pc = "move_binary"
    /\ \E transport_ok, sudo_ok \in BOOLEAN :
        LET d == Issue(output, "move_binary") IN
        output' = IF transport_ok /\ sudo_ok
                  THEN [d EXCEPT !.pc = AfterBinary(input.config),
                                 !.host.binary = Installed(d.host.binary, d.host.tmp_binary, TRUE),
                                 !.host.tmp_binary = LeftInTmp(d.host.tmp_binary, TRUE)]
                  ELSE DeployReturn(d, "Err")
    /\ DeployFrame

\* upload_file(config_path, "/tmp/config.toml"): a failure is logged and the
\* deployment goes on
UploadConfig ==
    /\ output.pc = "upload_config"
    /\ \E transport_ok \in BOOLEAN :
        LET d == Issue(output, "upload_config") IN
        output' = [d EXCEPT !.pc = "move_config",
                            !.config_upload = Outcome(transport_ok),
                            !.host.tmp_config = IF transport_ok THEN "new"
                                                ELSE d.host.tmp_config]
    /\ DeployFrame

\* `sudo rm -f config.toml && sudo mv /tmp/config.toml config.toml && chmod`:
\* a failure is logged and the deployment goes on
MoveConfig ==
    /\ output.pc = "move_config"
    /\ \E transport_ok, sudo_ok \in BOOLEAN :
        LET d == Issue(output, "move_config")
            ran == transport_ok /\ sudo_ok
        IN  output' = [d EXCEPT !.pc = AfterConfig(input.config),
                                !.host.config = Installed(d.host.config, d.host.tmp_config, ran),
                                !.host.tmp_config = LeftInTmp(d.host.tmp_config, ran)]
    /\ DeployFrame

\* upload_file(topo_path, "/tmp/topo.json")
UploadTopo ==
    /\ output.pc = "upload_topo"
    /\ \E transport_ok \in BOOLEAN :
        LET d == Issue(output, "upload_topo") IN
        output' = [d EXCEPT !.pc = "move_topo",
                            !.topo_upload = Outcome(transport_ok),
                            !.host.tmp_topo = IF transport_ok THEN "new"
                                              ELSE d.host.tmp_topo]
    /\ DeployFrame

\* `sudo rm -f topo.json && sudo mv /tmp/topo.json topo.json && chmod`
MoveTopo ==
    /\ output.pc = "move_topo"
    /\ \E transport_ok, sudo_ok \in BOOLEAN :
        LET d == Issue(output, "move_topo")
            ran == transport_ok /\ sudo_ok
        IN  output' = [d EXCEPT !.pc = AfterTopo(input.config),
                                !.host.topo = Installed(d.host.topo, d.host.tmp_topo, ran),
                                !.host.tmp_topo = LeftInTmp(d.host.tmp_topo, ran)]
    /\ DeployFrame

\* `id analysis || sudo useradd ...`: the outcome is only logged
CreateUser ==
    /\ output.pc = "create_user"
    /\ output' = [Issue(output, "create_user") EXCEPT !.pc = "chown"]
    /\ DeployFrame

\* `sudo chown -R analysis:analysis /opt/analysis`: the outcome is only logged
Chown ==
    /\ output.pc = "chown"
    /\ output' = [Issue(output, "chown") EXCEPT !.pc = "upload_service"]
    /\ DeployFrame

\* std::fs::write of the unit file, then upload_file to /tmp: either failure
\* returns
UploadService ==
    /\ output.pc = "upload_service"
    /\ \E write_ok, transport_ok \in BOOLEAN :
        output' = IF ~write_ok THEN DeployReturn(output, "Err")
                  ELSE LET d == Issue(output, "upload_service") IN
                       IF transport_ok THEN [d EXCEPT !.pc = "move_service"]
                       ELSE DeployReturn(d, "Err")
    /\ DeployFrame

\* `sudo mv <tmp> <SERVICE_FILE> && sudo systemctl daemon-reload`, then
\* `if config.start_service || need_restart`
MoveService ==
    /\ output.pc = "move_service"
    /\ \E ok \in BOOLEAN :
        LET d == Issue(output, "move_service") IN
        output' = IF ~ok THEN DeployReturn(d, "Err")
                  ELSE LET e == [d EXCEPT !.host.service_file = TRUE] IN
                       IF input.config.start_service \/ d.need_restart
                       THEN [e EXCEPT !.pc = "enable"]
                       ELSE DeployReturn(e, "Ok")
    /\ DeployFrame

\* `sudo systemctl enable`: a failure is logged; then `if need_restart`
EnableService ==
    /\ output.pc = "enable"
    /\ \E ok \in BOOLEAN :
        LET d == Issue(output, "enable") IN
        output' = [d EXCEPT !.pc = IF d.need_restart THEN "restart" ELSE "start",
                            !.host.enabled = ok \/ d.host.enabled]
    /\ DeployFrame

\* `sudo systemctl restart`: a failure returns
RestartService ==
    /\ output.pc = "restart"
    /\ \E ok \in BOOLEAN :
        LET d == Issue(output, "restart") IN
        output' = IF ok THEN [d EXCEPT !.pc = "status", !.host.service = "running"]
                  ELSE DeployReturn(d, "Err")
    /\ DeployFrame

\* `sudo systemctl start`: a failure returns
StartService ==
    /\ output.pc = "start"
    /\ \E ok \in BOOLEAN :
        LET d == Issue(output, "start") IN
        output' = IF ok THEN [d EXCEPT !.pc = "status", !.host.service = "running"]
                  ELSE DeployReturn(d, "Err")
    /\ DeployFrame

\* `sudo systemctl status --no-pager -l`: the answer is only logged; `Ok(logs)`
VerifyStatus ==
    /\ output.pc = "status"
    /\ output' = DeployReturn(Issue(output, "status"), "Ok")
    /\ DeployFrame

DeployFns == {"check_deploy_status", "deploy_application"}

InitDeploy ==
    /\ InitQuery
    /\ IdleConfig
    /\ \E fn \in DeployFns, c \in DeployConfigs, h \in {g \in Hosts : HostOk(g)} :
        /\ fn = "check_deploy_status" => c = NoDeployConfig
        /\ input = [fn |-> fn, config |-> c, host |-> h]
        /\ output = DeployStart(fn, h)

NextDeploy ==
    \/ CheckBinary
    \/ CheckServiceFile
    \/ CheckServiceFileNoSudo
    \/ CheckActive
    \/ CheckEnabled
    \/ StopService
    \/ Mkdir
    \/ UploadBinary
    \/ VerifyBinary
    \/ MoveBinary
    \/ UploadConfig
    \/ MoveConfig
    \/ UploadTopo
    \/ MoveTopo
    \/ CreateUser
    \/ Chown
    \/ UploadService
    \/ MoveService
    \/ EnableService
    \/ RestartService
    \/ StartService
    \/ VerifyStatus

SpecDeploy == InitDeploy /\ [][NextDeploy]_vars

\* ------------------------------------------------------------------ concurrent connect and disconnect

\* SshConfig: key_file is None, a path that does not exist, or a path that
\* exists; password is None or Some
SshConfigs ==
    {[key_file |-> k, password |-> p] : k \in {"None", "missing", "exists"}, p \in BOOLEAN}

NoSshConfig == [key_file |-> "None", password |-> FALSE]

\* a caller of connect or disconnect between two calls; `tried` is the
\* authentication methods the call has attempted, `stored` the statics it has
\* written
NoConnect ==
    [pc |-> "idle", fn |-> "none", call |-> 0, config |-> NoSshConfig, client |-> "None",
     result |-> "none", tried |-> <<>>, stored |-> {}]

\* a connect that reports the key's failure without trying the password
TryPassword_GivesUp(task) == [task EXCEPT !.pc = "done", !.result = "Err"]

\* connect after the key block: `if let Some(ref password) = config.password`,
\* else anyhow::bail!
TryPassword(task) ==
    IF task.config.password
    THEN [task EXCEPT !.pc = "password"]
    ELSE [task EXCEPT !.pc = "done", !.result = "Err"]

\* the variables connect and disconnect leave alone
ConnectFrame ==
    /\ UNCHANGED <<log_callback, remote_fs, local_fs, output_file, pc, loc, ops, result>>
    /\ UNCHANGED <<input, output, CONFIG, config_files, loaders>>

\* caller t invokes ssh_connect: the code up to the first Client::connect
ConnectStart(t) ==
    /\ tasks[t].pc = "idle"
    /\ calls < MaxCalls
    /\ calls' = calls + 1
    /\ \E config \in SshConfigs :
        LET task == [NoConnect EXCEPT !.fn = "connect", !.call = calls + 1, !.config = config]
        IN  tasks' = [tasks EXCEPT ![t] =
                IF config.key_file = "exists" THEN [task EXCEPT !.pc = "key"]
                ELSE TryPassword(task)]
    /\ UNCHANGED <<SSH_CLIENT, SSH_CONFIG, connects>>
    /\ ConnectFrame

\* Client::connect with AuthMethod::with_key_file returns
KeyAuth(t) ==
    /\ tasks[t].pc = "key"
    /\ \E ok \in BOOLEAN :
        LET task == [tasks[t] EXCEPT !.tried = Append(@, "key")] IN
        /\ tasks' = [tasks EXCEPT ![t] =
                IF ok THEN [task EXCEPT !.pc = "store_client", !.client = ClientArc(task.call)]
                ELSE TryPassword(task)]
        /\ connects' = IF ok THEN connects + 1 ELSE connects
    /\ UNCHANGED <<SSH_CLIENT, SSH_CONFIG, calls>>
    /\ ConnectFrame

\* Client::connect with AuthMethod::with_password returns; `?` on its error
PasswordAuth(t) ==
    /\ tasks[t].pc = "password"
    /\ \E ok \in BOOLEAN :
        LET task == [tasks[t] EXCEPT !.tried = Append(@, "password")] IN
        /\ tasks' = [tasks EXCEPT ![t] =
                IF ok THEN [task EXCEPT !.pc = "store_client", !.client = ClientArc(task.call)]
                ELSE [task EXCEPT !.pc = "done", !.result = "Err"]]
        /\ connects' = IF ok THEN connects + 1 ELSE connects
    /\ UNCHANGED <<SSH_CLIENT, SSH_CONFIG, calls>>
    /\ ConnectFrame

\* `*SSH_CLIENT.lock().unwrap() = Some(client_arc)`
StoreClient(t) ==
    /\ tasks[t].pc = "store_client"
    /\ SSH_CLIENT' = Store(SSH_CLIENT, tasks[t].client)
    /\ tasks' = [tasks EXCEPT ![t].pc = "store_config", ![t].stored = @ \cup {"SSH_CLIENT"}]
    /\ UNCHANGED <<SSH_CONFIG, calls, connects>>
    /\ ConnectFrame

\* `*SSH_CONFIG.lock().unwrap() = Some(config)`, then Ok(())
StoreConfig(t) ==
    /\ tasks[t].pc = "store_config"
    /\ SSH_CONFIG' = ConfigOf(tasks[t].call)
    /\ tasks' = [tasks EXCEPT ![t].pc = "done", ![t].result = "Ok",
                              ![t].stored = @ \cup {"SSH_CONFIG"}]
    /\ UNCHANGED <<SSH_CLIENT, calls, connects>>
    /\ ConnectFrame

\* caller t invokes ssh_disconnect: `SSH_CLIENT.lock().unwrap().take()`
TakeClient(t) ==
    /\ tasks[t].pc = "idle"
    /\ calls < MaxCalls
    /\ calls' = calls + 1
    /\ SSH_CLIENT' = Take(SSH_CLIENT)
    /\ tasks' = [tasks EXCEPT ![t] =
            [NoConnect EXCEPT !.fn = "disconnect", !.call = calls + 1, !.pc = "clear_config",
                              !.stored = {"SSH_CLIENT"}]]
    /\ UNCHANGED <<SSH_CONFIG, connects>>
    /\ ConnectFrame

\* `*SSH_CONFIG.lock().unwrap() = None`
ClearConfig(t) ==
    /\ tasks[t].pc = "clear_config"
    /\ SSH_CONFIG' = "None"
    /\ tasks' = [tasks EXCEPT ![t].pc = "done", ![t].result = "Ok",
                              ![t].stored = @ \cup {"SSH_CONFIG"}]
    /\ UNCHANGED <<SSH_CLIENT, calls, connects>>
    /\ ConnectFrame

\* caller t takes the returned value
ConnectReturn(t) ==
    /\ tasks[t].pc = "done"
    /\ tasks' = [tasks EXCEPT ![t] = NoConnect]
    /\ UNCHANGED <<SSH_CLIENT, SSH_CONFIG, calls, connects>>
    /\ ConnectFrame

InitConnect ==
    /\ tasks = [t \in Tasks |-> NoConnect]
    /\ connects = 0
    /\ SSH_CONFIG = "None"
    /\ SSH_CLIENT = "None"
    /\ log_callback = FALSE
    /\ remote_fs = {}
    /\ local_fs = {}
    /\ output_file = "absent"
    /\ calls = 0
    /\ pc = "idle"
    /\ loc = NoLocals
    /\ ops = <<>>
    /\ result = NoResult
    /\ InitAux

NextConnect ==
    \E t \in Tasks :
        \/ ConnectStart(t)
        \/ KeyAuth(t)
        \/ PasswordAuth(t)
        \/ StoreClient(t)
        \/ StoreConfig(t)
        \/ TakeClient(t)
        \/ ClearConfig(t)
        \/ ConnectReturn(t)

SpecConnect == InitConnect /\ [][NextConnect]_vars

\* ------------------------------------------------------------------ properties

\* the call has returned
Returned(fn) == pc = "done" /\ loc.fn = fn

\* the script's final run gave an exit status
ScriptFinished == loc.final.exit # -1

\* a remote delete of `path` was issued by the running call
RmIssued(path) == \E i \in DOMAIN ops : ops[i].op = "rm" /\ ops[i].path = path

DownloadIssued == \E i \in DOMAIN ops : ops[i].op = "download"

\* the download was attempted while no file existed at the remote path
MissingAtDownload == \E i \in DOMAIN ops : ops[i].op = "download" /\ ops[i].missing

\* the executions of the script, in order
IsScriptOp(o) == o.op = "script"

ScriptOps == SelectSeq(ops, IsScriptOp)

Exports == {"export_wide_table_direct", "export_demand_results_direct"}

\* C1: when execute_sql_query's script has run and its final exit status is
\* non-zero, a remote `rm -f` of the temp file path has been issued by the
\* time the call returns its error.
C1_RemoteDeleteOnScriptFailure ==
    (Returned("execute_query") /\ ScriptFinished /\ loc.final.exit # 0)
        => RmIssued(loc.temp_file)

\* C2: once the script has succeeded and returned a remote temp file path,
\* a remote delete of that path has been issued when the call returns, on
\* every path (download failure and later local failures included).
C2_RemoteDeleteAfterSuccess ==
    (Returned("execute_query") /\ loc.final.exit = 0 /\ loc.remote_temp_file # <<>>)
        => RmIssued(loc.remote_temp_file)

\* C3: the local temporary file created for the download does not exist any
\* more when execute_sql_query returns, whichever exit path it took after
\* creating it.
C3_LocalTempRemoved ==
    (Returned("execute_query") /\ loc.local_temp_path # <<>>)
        => loc.local_temp_path \notin local_fs

\* C3 witness: the call returned on the download-failure path, after the
\* local file was created.
C3_Witness ==
    /\ Returned("execute_query")
    /\ loc.local_temp_path # <<>>
    /\ result = OnDownloadError
    /\ DownloadIssued

\* C4: when a streaming export returns, the local download file is gone and
\* the remote .csv.gz file, if it is still there, has had its delete issued,
\* on every exit path.
C4_ExportArtifactsDeleted ==
    (pc = "done" /\ loc.fn \in Exports)
        => /\ (loc.local_temp_path # <<>> => loc.local_temp_path \notin local_fs)
           /\ (loc.temp_file \in remote_fs => RmIssued(loc.temp_file))

\* C5 (original): the second execution happens exactly when the first exits
\* non-zero and its stderr contains the text 'command not found'.
C5_RetryIffStderrContainsLiteral ==
    (pc = "done" /\ loc.fn # "none")
        => (Len(ScriptOps) = 2
              <=> (loc.first.exit \notin {-1, 0}
                   /\ Contains(loc.first.stderr, CommandNotFound)))

\* C5 (amended): the script is executed at most twice, first with python3;
\* the second execution (python, same temp path) happens exactly when the
\* first exits non-zero and its stderr, lowercased, contains 'command not
\* found'; a successful second execution is not reported as a script failure.
C5_RetryOnceCaseInsensitive ==
    /\ Len(ScriptOps) <= 2
    /\ (Len(ScriptOps) >= 1 => ScriptOps[1].interp = "python3")
    /\ (Len(ScriptOps) = 2 =>
            /\ ScriptOps[2].interp = "python"
            /\ ScriptOps[2].path = ScriptOps[1].path)
    /\ (pc = "done" /\ loc.fn # "none") =>
            /\ (Len(ScriptOps) = 2
                  <=> (loc.first.exit \notin {-1, 0}
                       /\ Contains(ToLowercase(loc.first.stderr), CommandNotFound)))
            /\ (Len(ScriptOps) = 2 /\ loc.final.exit = 0
                  => result.err \notin {"sql query failed", "execute command failed"})

\* C5 witness: the first run failed with csh's "Command not found.", the
\* second run with python succeeded and the call returned Ok.
C5_Witness ==
    /\ pc = "done"
    /\ loc.first.stderr = CshNotFound
    /\ Len(ScriptOps) = 2
    /\ loc.final.exit = 0
    /\ result.tag = "Ok"

\* C6: when the script exits 0 with a stdout that is empty after trimming,
\* execute_sql_query returns the 'no temp file path' error and attempts no
\* download.
C6_EmptyPathRejected ==
    (Returned("execute_query") /\ loc.final.exit = 0 /\ Trim(loc.final.stdout) = <<>>)
        => (result.tag = "Err" /\ ~DownloadIssued)

\* C7: when the script reported success with a path but no file exists at
\* that path, the query returns an error, never Ok.
C7_MissingRemoteFileIsError ==
    (Returned("execute_query") /\ loc.final.exit = 0 /\ loc.remote_temp_file # <<>>
        /\ MissingAtDownload)
        => result.tag = "Err"

\* C7 witness: a connected call whose script printed the path although the
\* file is absent, returned after the download attempt.
C7_Witness ==
    /\ Returned("execute_query")
    /\ loc.final.exit = 0
    /\ loc.remote_temp_file = loc.temp_file
    /\ \E i \in DOMAIN ops : ops[i].op = "download" /\ ops[i].missing /\ ops[i].sent
    /\ result.tag = "Err"

\* the rows a complete parse of the downloaded content gives
AllRows(c) == [i \in 1..Len(c.recs) |-> ParseRow(c.cols, c.recs[i])]

\* C8: execute_query ends in Ok or Err; an Ok result comes from a content
\* that was downloaded, decompressed and parsed completely and holds all of
\* its rows; an Err carries one message and no rows.
C8_OkCompleteOrErr ==
    Returned("execute_query") =>
        /\ result.tag \in {"Ok", "Err"}
        /\ result.tag = "Ok" =>
              /\ loc.content.gz /\ loc.content.hdr
              /\ \A i \in 1..Len(loc.content.recs) :
                    RecordOk(loc.content.cols, loc.content.recs[i])
              /\ result.rows = AllRows(loc.content)
              /\ result.count = Len(loc.content.recs)
        /\ result.tag = "Err" =>
              /\ result.rows = <<>>
              /\ result.columns = <<>>
              /\ result.err # ""

\* C8 witness: the second record failed to parse after the first one had
\* been parsed, and the call returned the error.
C8_Witness ==
    /\ Returned("execute_query")
    /\ Len(loc.content.recs) = 2
    /\ RecordOk(loc.content.cols, loc.content.recs[1])
    /\ ~RecordOk(loc.content.cols, loc.content.recs[2])
    /\ result = ErrResult("read csv record failed")

\* C9: execute_query with a query_type that is none of the recognized kinds
\* returns the unsupported-type error and has invoked no remote primitive.
C9_UnknownKindRejected ==
    (Returned("execute_query") /\ loc.query_type \notin RecognizedKinds)
        => (result = ErrResult("unsupported query type") /\ ops = <<>>)

\* C9 witness: a call with an unrecognized kind has returned.
C9_Witness ==
    /\ Returned("execute_query")
    /\ loc.query_type = "unknown"
    /\ result.tag = "Err"

WideTableReturned == Returned("execute_query") /\ loc.query_type = "wide_table"

\* the temp files of the scripts the call ran: one per sub-query, since every
\* execute_sql_query names a fresh temp file
SubQueries == {ScriptOps[i].path : i \in DOMAIN ScriptOps}

\* the downloaded file is the file the script wrote for the query
IntactDownload == loc.written # NoContent /\ loc.content = loc.written

\* local_timestamp of a result row
TimestampOf(row) == DecimalValue(row["local_timestamp"].text)

\* no row of data_wide lies in the requested range
NoRowInRange ==
    \A i \in DOMAIN DataWide :
        ~(loc.start_time * 1000 <= DataWide[i].local_timestamp
          /\ DataWide[i].local_timestamp <= loc.end_time * 1000)

C13_SubQueryErrorIsError ==
    (WideTableReturned /\ loc.sub.tag = "Err") =>
        (result.tag = "Err" /\ result = loc.sub /\ result.rows = <<>>)

\* C13 witness: the sub-query failed in the remote script and the call
\* returned the error.
C13_Witness ==
    /\ WideTableReturned
    /\ loc.sub = SqlQueryFailed(<<"no such table: data_wide">>)
    /\ result.tag = "Err"

C15_RowsSortedByTimestamp ==
    (WideTableReturned /\ result.tag = "Ok" /\ loc.start_time <= loc.end_time
        /\ IntactDownload)
        => \A i, j \in DOMAIN result.rows :
              i < j => TimestampOf(result.rows[i]) <= TimestampOf(result.rows[j])

\* C15 witness: rows stored in descending rowid order came back ascending.
C15_Witness ==
    /\ WideTableReturned
    /\ result.tag = "Ok"
    /\ IntactDownload
    /\ Len(result.rows) = 3
    /\ TimestampOf(result.rows[1]) < TimestampOf(result.rows[2])
    /\ DataWide[1].local_timestamp > DataWide[2].local_timestamp

\* C16 (original): the column list of every Ok result is the header of the
\* decoded data, in header order, also with zero data rows.
C16_ColumnsAreHeader ==
    (WideTableReturned /\ result.tag = "Ok") => result.columns = loc.content.cols

\* C16 (amended): with at least one row the column list is the header of
\* the decoded data in header order; with zero rows it is empty, whatever
\* the header.
C16_ColumnsAreHeaderUnlessEmpty ==
    (WideTableReturned /\ result.tag = "Ok") =>
        /\ (result.rows # <<>> => result.columns = loc.content.cols)
        /\ (result.rows = <<>> => result.columns = <<>>)

\* C16 witness: a file with a header and no records gave an Ok result
\* without columns.
C16_Witness ==
    /\ WideTableReturned
    /\ result.tag = "Ok"
    /\ loc.content.cols = Header
    /\ loc.content.recs = <<>>
    /\ result.columns = <<>>

\* C19: a query whose range matches no row returns Ok with total_rows = 0
\* and no rows (an inverted range included) once the file it wrote has been
\* downloaded, unless opening the local copy fails; and an Ok result with
\* zero rows is returned only after the script exited 0 on a connected
\* session and a file holding no record was downloaded and decoded, which
\* for an intact download means that no row matched.
C19_ZeroRowsIsOk ==
    WideTableReturned =>
        /\ (RmIssued(loc.remote_temp_file) /\ IntactDownload /\ NoRowInRange)
              => \/ result = OkResult(<<>>, <<>>, 0)
                 \/ result = ErrResult("open compressed file failed")
        /\ (result.tag = "Ok" /\ result.count = 0) =>
              /\ result.rows = <<>>
              /\ \A i \in DOMAIN ops : ops[i].op # "rm" => ops[i].sent
              /\ loc.final.exit = 0
              /\ DownloadIssued /\ ~MissingAtDownload
              /\ loc.content.gz /\ loc.content.hdr /\ loc.content.recs = <<>>
              /\ IntactDownload => NoRowInRange

\* C19 witness: an inverted range returned Ok with zero rows.
C19_Witness ==
    /\ WideTableReturned
    /\ loc.start_time > loc.end_time
    /\ IntactDownload
    /\ result = OkResult(<<>>, <<>>, 0)

\* a remote primitive is invoked in this step
PrimitiveInvoked == Len(ops') = Len(ops) + 1

\* C11: a remote primitive (execute_command, upload_file, download_file)
\* invoked while no session is stored reaches the remote host with nothing
\* and changes nothing there, and its error ends the call with Err; only the
\* error of the `rm -f` command is discarded by its caller (`let _ =`).  A
\* query whose script is to be executed in that state returns Err.
C11_NotConnectedIsError ==
    [][(SSH_CLIENT = "None" /\ PrimitiveInvoked) =>
            /\ ~ops'[Len(ops')].sent
            /\ remote_fs' = remote_fs
            /\ (ops'[Len(ops')].op # "rm" => (pc' = "done" /\ result'.tag = "Err"))
            /\ (ops'[Len(ops')].op = "script" =>
                    result' = ErrResult("execute command failed"))]_vars

\* C11 witness: a query call returned the error of its first
\* execute_command, which was not sent because no session was stored.
C11_Witness ==
    /\ Returned("execute_query")
    /\ SSH_CLIENT = "None"
    /\ Len(ops) = 1
    /\ ~ops[1].sent
    /\ result = ErrResult("execute command failed")

\* C18: a field is typed by the ordered rule: empty -> null; else integer
\* if its text parses as a 64-bit integer; else float if it parses as a
\* floating-point number; else the string itself.
C18_OrderedTypeRule ==
    output # NoValue =>
        /\ (input = "" => output.type = "null")
        /\ (input # "" /\ ParsesI64(input) => output.type = "int")
        /\ (input # "" /\ ~ParsesI64(input) /\ ParsesF64(input) => output.type = "float")
        /\ (input # "" /\ ~ParsesI64(input) /\ ~ParsesF64(input)
                => output = [type |-> "string", text |-> input])

\* the keys of all rows handed to the export
ExportedKeys == UNION {DOMAIN input.data.rows[i] : i \in DOMAIN input.data.rows}

\* `names` lists exactly the set S, local_timestamp first when present and the
\* other names in ascending order
TimestampFirstThenSorted(names, S) ==
    /\ {names[i] : i \in DOMAIN names} = S
    /\ Len(names) = Cardinality(S)
    /\ "local_timestamp" \in S => names[1] = "local_timestamp"
    /\ \A i, j \in DOMAIN names :
          (i < j /\ names[i] # "local_timestamp") => StrLess(names[i], names[j])

Initializing == {t \in Loaders : loaders[t].pc \in {"exe", "project"}}

\* C20: the export configuration is initialized at most once: one thread at
\* a time runs the initializer, the stored value is the first source that
\* loaded when it was tried (executable-adjacent file, then project file,
\* then the default; an absent or unparseable file is skipped), the stored
\* value never changes, and every load_config call, racing or later, returns
\* it whatever happens to the files.
C20_ConfigInitializedOnce ==
    /\ [](/\ Cardinality(Initializing) <= 1
          /\ CONFIG.state = "init" =>
                /\ CONFIG.value = FirstSuccessful(CONFIG.seen_exe, CONFIG.seen_project)
                /\ CONFIG.seen_exe \in ValidConfigs => CONFIG.seen_project = "untried"
                /\ CONFIG.seen_exe # "untried"
          /\ \A t \in Loaders :
                loaders[t].pc = "returned" =>
                    (CONFIG.state = "init" /\ loaders[t].got = CONFIG.value)
          /\ output \subseteq (IF CONFIG.state = "init" THEN {CONFIG.value} ELSE {}))
    /\ [][CONFIG.state = "init" => CONFIG' = CONFIG]_vars

\* C20 witness: the executable-adjacent file did not parse, the project file
\* gave the value; both files were changed afterwards and both threads got
\* the first value.
C20_Witness ==
    /\ CONFIG.state = "init"
    /\ CONFIG.seen_exe = "invalid"
    /\ CONFIG.value = "B"
    /\ config_files = [exe |-> "A", project |-> "absent"]
    /\ \A t \in Loaders : loaders[t].pc = "returned" /\ loaders[t].got = "B"
    /\ input = MaxLoads

\* ------------------------------------------------------------------ payload extraction

\* filter_and_extract_fields has returned for the row of `input`
RowFiltered == output.tag = "filtered" /\ Len(output.rows) = 1

\* the parsed payload of the row of `input`
InputPayload ==
    IF "payload_json" \in DOMAIN input.row
    THEN PayloadData(input.row["payload_json"])
    ELSE [some |-> FALSE, map |-> EmptyMap]

\* the main fields present on the row of `input`
MainKept ==
    {input.config.main_table_fields[i] : i \in DOMAIN input.config.main_table_fields}
        \cap DOMAIN input.row

\* the extraction list the code uses for the row of `input`
ListedFields == FieldsToExtract(input.config.extract_from_payload, DeviceTypeOf(input.row))

\* the positions of the listed fields the payload holds with a value other
\* than null
Extractable ==
    {i \in DOMAIN ListedFields :
        /\ ListedFields[i] \in DOMAIN InputPayload.map
        /\ InputPayload.map[ListedFields[i]].kind # "null"}

\* the configured output name of the i-th listed field
MappedName(i) ==
    IF ListedFields[i] \in DOMAIN input.config.field_name_mapping
    THEN input.config.field_name_mapping[ListedFields[i]]
    ELSE ListedFields[i]

WrittenDeviceType ==
    IF "device_type" \in DOMAIN input.row /\ input.row["device_type"].kind = "string"
    THEN input.row["device_type"].v
    ELSE "default"

\* the row that extraction with the list `fields` gives
ExtractedWith(fields) ==
    ExtractFields(fields, InputPayload.map, input.config.field_name_mapping, input.row,
                  KeepMainFields(input.config.main_table_fields, input.row, EmptyMap))

\* C22: the extraction list used for a row is the list configured for the
\* row's device type; the default list is used if and only if the
\* configuration has no entry for that device type, in any letter case, or
\* the row has no device type.
C22_ListOfRowsDeviceType ==
    (RowFiltered /\ InputPayload.some) =>
        LET extract_config == input.config.extract_from_payload
            default == IF "default" \in DOMAIN extract_config
                       THEN extract_config["default"] ELSE <<>>
        IN  /\ WrittenDeviceType \in DOMAIN extract_config
                  => output.rows[1] = ExtractedWith(extract_config[WrittenDeviceType])
            /\ (\A k \in DOMAIN extract_config :
                    ToUppercase(k) # ToUppercase(WrittenDeviceType))
                  => output.rows[1] = ExtractedWith(default)

\* ------------------------------------------------------------------ round trip of the script's inputs

\* the characters that end a Python string literal, a shell word or a line
QuotingChars == {"\"", "'", "\\", "\n"}

\* per line of a command, how many quoting characters it holds
QuotingShape(command) ==
    [i \in DOMAIN command |->
        Cardinality({k \in 1..Len(command[i]) : Char(command[i], k) \in QuotingChars})]

\* C23: for every database path and SQL text, with quotes, backslashes,
\* newlines and non-ASCII characters among them, what the script decodes from
\* the embedded text is the original string, and the command holds the
\* strings only encoded: it has the lines and the quoting characters of the
\* command built for empty strings, whatever the strings are.
C23_ScriptInputsRoundTrip ==
    /\ output.ran =>
          /\ output.db_path = Decoded(input.db_path)
          /\ output.sql = Decoded(input.sql)
    /\ output.command # <<>> =>
          QuotingShape(output.command)
              = QuotingShape(Command(EofMarker,
                                     PythonScript("", "", TempFile("execute_query", 1)[1])))

\* C23 witness: the script has decoded a path that is a backslash and an SQL
\* text made of a double quote and a three-byte character.
C23_Witness ==
    /\ output.ran
    /\ input.db_path = <<92>>
    /\ input.sql = <<34, 20013>>
    /\ output.sql.ok
    /\ output.sql.value = <<34, 20013>>

\* ------------------------------------------------------------------ the script's outcome protocol

\* the text is the structured error payload
StructuredError(text) == IsJsonObject(text) /\ JsonHas(text, "error")

\* C24: the generated query script exits with status 0 only after the
\* compressed temp file has been completely written and closed, with exactly
\* the temp file path on stdout; when it fails it exits non-zero with one
\* structured error payload on stderr and no path on stdout.
C24_ScriptOutcomeProtocol ==
    /\ output.exit = 0 =>
          /\ output.file = "complete"
          /\ output.stdout = <<input.temp_file>>
    /\ output.exit \notin {-1, 0} =>
          /\ Len(output.stderr) = 1
          /\ StructuredError(output.stderr[1])
          /\ output.stdout = <<>>

\* ------------------------------------------------------------------ cleanup failures

\* what execute_sql_query returns for the downloaded content `c` once the
\* local file is open
DecodedOutcome(c) ==
    LET parsed == ParseRecords(c.cols, c.recs, <<>>) IN
    IF ~c.gz THEN ErrResult("read decompressed data failed")
    ELSE IF ~c.hdr THEN ErrResult("read csv header failed")
    ELSE IF ~parsed.ok THEN ErrResult("read csv record failed")
    ELSE OkResult(c.cols, parsed.rows, Len(parsed.rows))

\* the values a call that has reached its remote delete returns when its
\* other steps succeed or fail as they can: none of them names a cleanup step
OutcomesBesideCleanup(l) ==
    IF l.fn = "execute_query"
    THEN {ErrResult("open compressed file failed"),
          ExecuteWideTableQuery(DecodedOutcome(l.content))}
    ELSE {ErrResult("open compressed file failed"), ErrResult("create output file failed")}
         \cup (IF l.content.gz
               THEN {ErrResult("output file metadata failed"),
                     OkResult(<<>>, <<>>, l.row_count)}
               ELSE {ErrResult("read decompressed data failed")})

\* C25: a failure of a cleanup step (the remote rm -f, the removal of the
\* local temp file) never changes what the call returns: the returned value
\* is the Ok value with the downloaded data, or the error of the step that
\* failed, exactly as when the cleanup succeeds.
C25_CleanupFailureIgnored ==
    [][(pc = "rm" /\ pc' = "done") => result' \in OutcomesBesideCleanup(loc)]_vars

\* C25 witness: a query whose remote delete and whose local removal both
\* failed has returned Ok with its rows.
C25_Witness ==
    /\ Returned("execute_query")
    /\ loc.rm = "failed"
    /\ loc.local_rm = "failed"
    /\ result.tag = "Ok"
    /\ result.rows # <<>>
    /\ result = ExecuteWideTableQuery(DecodedOutcome(loc.content))

\* ------------------------------------------------------------------ the shared session

\* C26: the process stores at most one session handle, and it is the one
\* of the latest successful connect: a successful connect replaces the stored
\* handle, after a disconnect none is stored, and a remote operation started
\* while none is stored fails with the not-connected error without reaching
\* the remote host.
C26_OneStoredSession ==
    /\ [](/\ SSH_CLIENT \in {"None", ClientArc(connects)}
          /\ connects = 0 => SSH_CLIENT = "None")
    /\ [][/\ connects' = connects + 1 => SSH_CLIENT' = ClientArc(connects')
          /\ SshDisconnect => SSH_CLIENT' = "None"
          /\ \A t \in Tasks :
                (BeginOp(t) /\ SSH_CLIENT = "None") =>
                    /\ tasks'[t].client = "None"
                    /\ tasks'[t].pc = "done"
                    /\ tasks[t].pc # "rm" => tasks'[t].result = "not connected"]_vars

\* C26 witness: two sessions were opened, the second replacing the first,
\* the session was disconnected, and an operation started afterwards has
\* failed with the not-connected error.
C26_Witness ==
    /\ connects = 2
    /\ SSH_CLIENT = "None"
    /\ \E t \in Tasks : tasks[t].pc = "done" /\ tasks[t].result = "not connected"

\* the callers with a command or a transfer in flight on a session
InFlight == {t \in Tasks : tasks[t].client # "None"}

\* C27: at most one remote command or file transfer is in flight on the
\* shared session at any time.
C27_OneInFlight ==
    \A t, u \in InFlight : tasks[t].client = tasks[u].client => t = u

\* every use of a temp file path by a query or export call so far
UsedPaths == UNION {tasks[t].used : t \in Tasks}

\* C28: a temp file path, remote or local, that one query or export call
\* has written, downloaded or deleted is never used by another call,
\* concurrent or not.
C28_TempFilesExclusive ==
    \A r1, r2 \in UsedPaths : r1.path = r2.path => r1.call = r2.call

\* C28 witness: two calls run at the same time, each at its remote delete
\* after having written and downloaded its own remote and local temp files.
C28_Witness ==
    /\ \A t \in Tasks :
          /\ tasks[t].pc = "rm"
          /\ tasks[t].client # "None"
          /\ {r.path : r \in {u \in tasks[t].used : u.call = tasks[t].call}}
                = {tasks[t].temp_file, tasks[t].local_temp_path}
    /\ tasks[1].call # tasks[2].call

\* ------------------------------------------------------------------ shape of a query result

\* the names in a column list
ColumnSet(columns) == {columns[i] : i \in DOMAIN columns}

\* C29: in every QueryResult a query returns, the keys of each row are among
\* the result's columns, and total_rows is the number of rows.
C29_RowsWithinColumns ==
    (Returned("execute_query") /\ result.tag = "Ok") =>
        /\ \A i \in DOMAIN result.rows : DOMAIN result.rows[i] \subseteq ColumnSet(result.columns)
        /\ result.count = Len(result.rows)

\* C29 witness: a query has returned two rows, each with a key for every one
\* of the three columns.
C29_Witness ==
    /\ Returned("execute_query")
    /\ result.tag = "Ok"
    /\ Len(result.rows) = 2
    /\ Len(result.columns) = 3
    /\ \A i \in DOMAIN result.rows : DOMAIN result.rows[i] = ColumnSet(result.columns)
    /\ result.count = 2

\* ------------------------------------------------------------------ the error of a failed script

\* stderr is the structured payload: a JSON object of strings, whitespace
\* around it aside, with an entry "error"
StructuredPayload(stderr) ==
    /\ IsJsonObject(Trim(stderr))
    /\ JsonHas(Trim(stderr), "error")
    /\ \A i \in 1..Len(JsonInner(Trim(stderr))) :
            i % 4 = 3 => ~IsJsonNumber(JsonInner(Trim(stderr))[i])

\* a call has returned after its script's final run exited non-zero
ScriptFailed == pc = "done" /\ loc.fn # "none" /\ ScriptFinished /\ loc.final.exit # 0

\* C30: when the script's final exit status is non-zero, the call returns one
\* error whose message is the "error" field of stderr if stderr is the
\* structured payload and the raw stderr text otherwise (a JSON object without
\* "error" included), and no download has been attempted.
C30_ScriptErrorMessage ==
    ScriptFailed =>
        /\ result.tag = "Err"
        /\ result.err = "sql query failed"
        /\ result.rows = <<>>
        /\ result.detail = IF StructuredPayload(loc.final.stderr)
                           THEN <<JsonGet(Trim(loc.final.stderr), "error")>>
                           ELSE loc.final.stderr
        /\ ~DownloadIssued

\* C30 witness: the final run failed with a JSON object that has no "error"
\* entry, and the call returned the raw stderr text as its message.
C30_Witness ==
    /\ ScriptFailed
    /\ loc.final.stderr = NoErrorField
    /\ result.tag = "Err"
    /\ result.detail = NoErrorField
    /\ ~DownloadIssued

\* ------------------------------------------------------------------ the time filter

\* rowids of data_wide whose local_timestamp lies between the request's
\* times, taken as seconds, both ends included
RowsInRequest ==
    {i \in DOMAIN DataWide :
        /\ loc.start_time * 1000 <= DataWide[i].local_timestamp
        /\ DataWide[i].local_timestamp <= loc.end_time * 1000}

\* the running query's script has written its result file
QueryWritten == loc.fn = "execute_query" /\ loc.written.gz

\* C31: the wide-table query selects exactly the rows with
\* start*1000 <= local_timestamp <= end*1000: rows at either bound are
\* selected, rows one millisecond outside are not.
C31_InclusiveTimeFilter ==
    QueryWritten =>
        /\ Len(loc.written.recs) = Cardinality(RowsInRequest)
        /\ {loc.written.recs[k] : k \in DOMAIN loc.written.recs}
              = {RowRecord(DataWide[i]) : i \in RowsInRequest}

\* C31 witness: a request for seconds 1..2 has been answered with the row at
\* 1000 ms and both rows at 2000 ms, and without the rows at 999 and 2001 ms.
C31_Witness ==
    /\ QueryWritten
    /\ pc = "done"
    /\ loc.start_time = 1
    /\ loc.end_time = 2
    /\ Len(loc.written.recs) = 3
    /\ \E k \in DOMAIN loc.written.recs : loc.written.recs[k][1] = "1000"
    /\ \E k \in DOMAIN loc.written.recs : loc.written.recs[k][1] = "2000"
    /\ \A k \in DOMAIN loc.written.recs : loc.written.recs[k][1] \notin {"999", "2001"}

\* ------------------------------------------------------------------ deployment status

StatusProbes == {"check_binary", "check_service_file", "check_service_file_no_sudo",
                 "check_active", "check_enabled"}

\* check_deploy_status has returned its DeployStatus
StatusReturned == output.pc \notin StatusProbes

\* the command has been issued by the running call
Issued(cmd) == \E i \in DOMAIN output.cmds : output.cmds[i] = cmd

\* C39: every DeployStatus of check_deploy_status has service_running =>
\* service_exists and service_enabled => service_exists; the running and
\* enabled probes are issued only when the service file was found; a flag is
\* true only when its probe answered yes, so a probe that fails or gives no
\* recognizable answer leaves it false; and the function returns Ok.
C39_StatusFlagsNeedServiceFile ==
    /\ (Issued("check_active") \/ Issued("check_enabled")) => output.status.service_exists
    /\ StatusReturned =>
        /\ output.status.service_running => output.status.service_exists
        /\ output.status.service_enabled => output.status.service_exists
    /\ (~StatusReturned \/ output.fn = "check_deploy_status") =>
        \A f \in DOMAIN output.status :
            output.status[f] <=> output.answers[f] = "Some(true)"
    /\ (output.fn = "check_deploy_status" /\ output.pc = "done") => output.result = "Ok"

\* C39 witness: check_deploy_status returned Ok with every flag false after
\* each of its probes failed, on a host where the unit is installed and running.
C39_Witness ==
    /\ output.fn = "check_deploy_status"
    /\ output.pc = "done"
    /\ output.result = "Ok"
    /\ output.cmds = <<"check_binary", "check_service_file", "check_service_file_no_sudo">>
    /\ output.answers.installed = "Err"
    /\ output.answers.service_exists = "Err"
    /\ output.status = NoStatus
    /\ output.host.service = "running"

\* ------------------------------------------------------------------ deployment: stop, replace, restart

Deploying == output.fn = "deploy_application" /\ StatusReturned

\* positions in the call's commands
Positions(cmd) == {i \in DOMAIN output.cmds : output.cmds[i] = cmd}

\* the commands that replace an installed file
ReplaceCmds == {"move_binary", "move_config", "move_topo", "move_service"}

ReplacePositions == {i \in DOMAIN output.cmds : output.cmds[i] \in ReplaceCmds}

\* the service was found running and a config or topology upload is selected
RestartCase ==
    /\ output.status.service_running
    /\ input.config.upload_config \/ input.config.upload_topo

DeployedOk == output.fn = "deploy_application" /\ output.pc = "done" /\ output.result = "Ok"

C33_RunningServiceRunsAfterOk ==
    (DeployedOk /\ input.host.service = "running") => output.host.service = "running"

\* C34: when the upload of the config (or topology) file to /tmp fails, the
\* config.toml (or topo.json) installed before the call is left as it was.
C34_InstalledKeptOnUploadFailure ==
    Deploying =>
        /\ output.config_upload = "failed" => output.host.config = input.host.config
        /\ output.topo_upload = "failed" => output.host.topo = input.host.topo

\* C35: a step in which export_wide_table_direct or
\* export_demand_results_direct returns an error leaves the file at
\* output_path as it was: not created, truncated or partially written.
C35_OutputUntouchedOnError ==
    [][(pc # "done" /\ pc' = "done" /\ loc'.fn \in Exports /\ result'.tag = "Err")
          => output_file' = output_file]_vars

\* C36: when execute_sql_query, export_wide_table_direct or
\* export_demand_results_direct has returned, on success or on any error, no
\* SSH log callback is registered any more.
C36_CallbackClearedOnReturn ==
    (pc = "done" /\ loc.fn # "none") => ~log_callback

\* ------------------------------------------------------------------ stored session and configuration

\* no connect or disconnect call is under way
Quiescent == \A t \in Tasks : tasks[t].pc \in {"idle", "done"}

\* C37: in every quiescent state, a session handle is stored if and only if
\* a configuration is stored, and the stored configuration is the one the
\* stored handle was connected with.
C37_HandleMatchesConfig ==
    Quiescent =>
        \/ SSH_CLIENT = "None" /\ SSH_CONFIG = "None"
        \/ \E n \in 1..calls : SSH_CLIENT = ClientArc(n) /\ SSH_CONFIG = ConfigOf(n)

\* the connect calls that have reported failure
FailedConnects == {t \in Tasks : tasks[t].fn = "connect" /\ tasks[t].result = "Err"}

\* C38: a connect call that fails has written neither the stored handle nor
\* the stored configuration, and the step in which it fails leaves both as
\* they were; it has tried the key when the key file exists, and it has tried
\* the password, after the key, whenever a password is present.
C38_FailedConnectKeepsSession ==
    /\ [](\A t \in FailedConnects :
            /\ tasks[t].stored = {}
            /\ tasks[t].tried =
                  (IF tasks[t].config.key_file = "exists" THEN <<"key">> ELSE <<>>)
                  \o (IF tasks[t].config.password THEN <<"password">> ELSE <<>>))
    /\ [][\A t \in Tasks :
            (tasks'[t] # tasks[t] /\ tasks'[t].fn = "connect" /\ tasks'[t].result = "Err")
                => (SSH_CLIENT' = SSH_CLIENT /\ SSH_CONFIG' = SSH_CONFIG)]_vars

\* C38 witness: after a first connect stored its session, a second connect
\* failed with the key and then with the password, and the first session and
\* its configuration are still stored.
C38_Witness ==
    /\ \E t \in FailedConnects : tasks[t].tried = <<"key", "password">> /\ tasks[t].call = 2
    /\ SSH_CLIENT = ClientArc(1)
    /\ SSH_CONFIG = ConfigOf(1)


\* C40: type inference preserves the value of a non-empty field: the typed
\* value is never null, an integer only when the text parses as an i64 and
\* then that integer, a float only when the text parses as an f64 and then
\* the number written, a string only as the text itself; a text that parses
\* as an f64 without being finite ("inf", "NaN", "1e309") is not turned into
\* the number 0.
C40_ValuePreserved ==
    (output # NoValue /\ input # "") =>
        /\ output.type # "null"
        /\ output.type = "int" => (ParsesI64(input) /\ output.text = I64Text(input))
        /\ output.type = "float" => (ParsesF64(input) /\ output.text = input)
        /\ output.type = "string" => output.text = input
        /\ (ParsesF64(input) /\ ~IsFiniteF64(input))
              => output # [type |-> "int", text |-> "0"]

====
